---- MODULE Spec2Model ----
(***************************************************************************)
(* State-machine model of the 15-minute Up/Down trading bot.               *)
(*                                                                         *)
(* LiveTrader (src/live_trader.py) is driven by one stream of price ticks. *)
(* The feed awaits the tick handler (chainlink_ws.py:119, binance_ws.py:62)*)
(* so one handler runs at a time.  A handler is suspended only inside      *)
(* _confirm_fill, which polls the exchange in a loop; pc records that      *)
(* position and no other action is enabled while it is not "idle".         *)
(*                                                                         *)
(* Units: time in seconds; BTC prices in dollars; token prices in          *)
(* thousandths of a dollar; shares in thousandths of a share; money in     *)
(* millionths of a dollar (thousandth of a share times thousandth of a     *)
(* dollar).  Python floats are modelled as exact decimals and round() as   *)
(* round-half-even on the decimal value.                                   *)
(*                                                                         *)
(* The trader is the one built by LiveTrader(single=False, audit=False)    *)
(* with no environment overrides of the configuration.  File and log       *)
(* output (save_state, log_event, print) is not modelled.                  *)
(***************************************************************************)
EXTENDS Integers, Sequences, FiniteSets, TLC

VARIABLES
    now,              \* wall clock, time.time()
    pc,               \* "idle" | "buy_poll" | "sell_poll": where the tick handler is
    iv,               \* LiveTrader.current_interval (NoInterval before the first tick)
    trades,           \* LiveTrader.trades: resolved trades, in order
    bankroll,         \* LiveTrader.bankroll
    session_pnl,      \* LiveTrader.session_pnl
    circuit_breaker,  \* LiveTrader._circuit_breaker
    poll,             \* locals of the suspended handler: the order polled by _confirm_fill
    hist,             \* history of the current interval: orders accepted, positions created, ...
    ev,               \* what the last step did (calls made to the exchange, inputs it read)
    obs,              \* the EntryObserver (src/entry_observer.py), a program of its own
    trk,              \* a TrendTracker (src/trend.py)
    cal,              \* a run of simulate_intervals (src/calibrate.py)
    cls,              \* a call of classify_move or classify_elapsed (src/calibrate.py)
    tbl,              \* the tables of a run of calibrate.main (src/calibrate.py)
    tag               \* the trend tags of one window in two runs of calibrate.main

vars == <<now, pc, iv, trades, bankroll, session_pnl, circuit_breaker, poll, hist, ev,
          obs, trk, cal, cls, tbl, tag>>

----------------------------------------------------------------------------
(* Configuration: the defaults of live_trader.py.                          *)

BET_SIZE == 5000000            \* $5.00
MIN_MOVE_PCT == 5              \* 0.05 %, in hundredths of a percent
STRONG_MOVE_PCT == 10          \* 0.10 %
ENTRY_START == 45
ENTRY_END == 840
MIN_EDGE == 20                 \* 0.02
MAX_ENTRY_PRICE == 750         \* 0.75
TAKE_PROFIT_PCT == 50          \* +50 %
STOP_LOSS_PCT == 25            \* -25 %
EXIT_BEFORE_END == 60
MONITOR_INTERVAL == 5
MAX_SESSION_LOSS == 15000000   \* $15.00
MAX_SPREAD == 60               \* 0.06
ENTRY_ORDER_TIMEOUT == 20
EXIT_ORDER_TIMEOUT == 20
MAX_SELL_ATTEMPTS == 3
INTERVAL_LEN == 900
MODERATE_AFTER == 420          \* MODERATE signals need elapsed > 420
LATE_AFTER == 600              \* STRONG fair value is 0.85 after 600 s, else 0.75
EVAL_BUCKET == 30              \* one evaluation per 30 s of elapsed time
MATCHED_LAG_POLLS == 5         \* MATCHED with size_matched = 0 is accepted from the 5th poll
MIN_ORDER_VALUE == 1000000     \* $1.00 minimum order value

----------------------------------------------------------------------------
(* Arithmetic helpers.                                                     *)

Abs(x) == IF x < 0 THEN -x ELSE x
Max(a, b) == IF a >= b THEN a ELSE b
Min(a, b) == IF a <= b THEN a ELSE b

\* round(): x to the nearest multiple of m, ties to the even multiple
RoundTo(x, m) ==
    LET a == Abs(x)
        q == a \div m
        r == a % m
        up == (2 * r > m) \/ (2 * r = m /\ q % 2 = 1)
        n == IF up THEN q + 1 ELSE q
    IN  IF x < 0 THEN -(n * m) ELSE n * m

RECURSIVE SetMax(_, _)
SetMax(S, m) ==
    IF S = {} THEN m
    ELSE LET x == CHOOSE y \in S : TRUE
         IN  SetMax(S \ {x}, IF x > m THEN x ELSE m)

RECURSIVE SetMin(_, _)
SetMin(S, m) ==
    IF S = {} THEN m
    ELSE LET x == CHOOSE y \in S : TRUE
         IN  SetMin(S \ {x}, IF x < m THEN x ELSE m)

NoPrice == 0                   \* None for a price field
NoInterval == [none |-> TRUE]
NoTrade == [none |-> TRUE]
NoPoll == [none |-> TRUE]
NoBook == [none |-> TRUE]
NoConfirm == [none |-> TRUE]

----------------------------------------------------------------------------
(* The environment: the inputs the trader can read.  Env is the one of the *)
(* specification Spec: every kind of answer, over MaxIntervals intervals.  *)
(* LongEnv is the one of SpecLong: a market that always quotes and fills   *)
(* or rejects, over LongIntervals intervals.                               *)

MaxIntervals == 1              \* Spec: ticks arrive for MaxIntervals intervals
LongIntervals == 4             \* SpecLong: ticks arrive for LongIntervals intervals

\* one poll iteration of _confirm_fill takes the API's latency and a 1 s sleep
PollLatency == 2
PollSleep == 1

GoodBook == [bids |-> {220, 230}, asks |-> {240, 260}]

\* answers of get_order.  fill: how much of the order the answer reports as
\* matched; orig: whether it carries the order's original_size (read as 0
\* when absent)
AllResponses ==
    { [status |-> "nodata", fill |-> "none", orig |-> "absent"],  \* nothing returned
      [status |-> "error", fill |-> "none", orig |-> "absent"],   \* get_order raised
      [status |-> "OPEN", fill |-> "none", orig |-> "echo"],
      [status |-> "OPEN", fill |-> "part", orig |-> "echo"],
      [status |-> "MATCHED", fill |-> "none", orig |-> "echo"],
      [status |-> "MATCHED", fill |-> "none", orig |-> "absent"],
      [status |-> "MATCHED", fill |-> "all", orig |-> "echo"],
      [status |-> "CANCELED", fill |-> "none", orig |-> "echo"],
      [status |-> "CANCELED", fill |-> "part", orig |-> "echo"],
      [status |-> "EXPIRED", fill |-> "none", orig |-> "echo"] }

Env ==
    [ intervals |-> MaxIntervals,
      \* elapsed times at which ticks are handled: at the very start of the
      \* interval, before the entry window, early in it (twice in one 30 s bucket), late in it (twice in one
      \* bucket, within 5 s), and four times in the last 60 s, the first of
      \* them within 5 s of the one before
      marks |-> {0, 60, 62, 836, 838, 840, 870, 880, 890},
      \* BTC prices: +0.1 % from 50000 to 50050, -0.0999 % back
      prices |-> {50000, 50050},
      \* _fetch_market: nothing usable, not accepting orders, open
      markets |-> {"none", "closed", "open"},
      \* _get_order_book: no book, an empty one, a tight cheap one, a wide
      \* one, an expensive one
      books |-> { NoBook, [bids |-> {}, asks |-> {}], GoodBook,
                  [bids |-> {100}, asks |-> {240}],
                  [bids |-> {770}, asks |-> {780}] },
      \* post_order: raises, empty, rejected, no order id, accepted
      posts |-> {"exception", "empty", "errorMsg", "no_id", "accepted"},
      \* _get_clob_midpoint (0: no price)
      mids |-> {0, 100, 250, 400},
      \* _get_clob_price (0: no price, or the fetch failed)
      sell_prices |-> {0, 600},
      responses |-> AllResponses,
      \* the size a partial fill reports, in thousandths of a share
      partial |-> 2006 ]

LongEnv ==
    [ intervals |-> LongIntervals,
      marks |-> {60, 630, 700},
      prices |-> {50000, 50050},
      markets |-> {"open"},
      books |-> {GoodBook},
      posts |-> {"errorMsg", "accepted"},
      \* a midpoint near the entry price, and one that takes the profit
      mids |-> {250, 400},
      sell_prices |-> {600},
      responses |-> { [status |-> "OPEN", fill |-> "none", orig |-> "echo"],
                      [status |-> "MATCHED", fill |-> "all", orig |-> "echo"] },
      partial |-> 2006 ]

\* GateEnv is the environment of SpecGate: more kinds of signal, market
\* and order book than Env, fewer kinds of answer to an order.
GateIntervals == 1

\* an exchange that never fills an order and never ends it: get_order
\* returns nothing, raises, or reports the order OPEN with nothing matched
StallEnv ==
    [ intervals |-> GateIntervals,
      marks |-> {0, 60, 62, 450, 630, 850},
      prices |-> {50000, 50050},
      markets |-> {"open"},
      books |-> { GoodBook },
      posts |-> {"errorMsg", "accepted"},
      mids |-> {250},
      sell_prices |-> {600},
      responses |-> { [status |-> "nodata", fill |-> "none", orig |-> "absent"],
                      [status |-> "error", fill |-> "none", orig |-> "absent"],
                      [status |-> "OPEN", fill |-> "none", orig |-> "echo"] },
      partial |-> 2006 ]

\* the trader with a tick before the entry window and ticks in two 30 s
\* buckets of it, and a wide book that makes an evaluation end without an
\* order
ThrottleEnv ==
    [ intervals |-> GateIntervals,
      marks |-> {10, 60, 62, 95},
      prices |-> {50000, 50050},
      markets |-> {"open"},
      books |-> { GoodBook, [bids |-> {100}, asks |-> {240}] },
      posts |-> {"errorMsg", "accepted"},
      mids |-> {250},
      sell_prices |-> {600},
      responses |-> { [status |-> "OPEN", fill |-> "none", orig |-> "echo"],
                      [status |-> "MATCHED", fill |-> "all", orig |-> "echo"] },
      partial |-> 2006 ]

GateEnv ==
    [ intervals |-> GateIntervals,
      marks |-> {0, 60, 62, 450, 630, 850},
      \* +0.06 % from 50000 to 50030, +0.1 % to 50050, and back
      prices |-> {50000, 50030, 50050},
      \* _fetch_market: nothing usable, acceptingOrders false, true, absent
      markets |-> {"none", "closed", "open", "unflagged"},
      \* no book, an empty one, a tight cheap one, a wide one, an expensive
      \* one, one with asks only, and two that leave an edge of 0.02 or less
      books |-> { NoBook, [bids |-> {}, asks |-> {}], GoodBook,
                  [bids |-> {100}, asks |-> {240}],
                  [bids |-> {770}, asks |-> {780}],
                  [bids |-> {}, asks |-> {50}],
                  [bids |-> {660}, asks |-> {670}],
                  [bids |-> {720}, asks |-> {730}] },
      posts |-> {"errorMsg", "accepted"},
      mids |-> {250},
      sell_prices |-> {600},
      responses |-> { [status |-> "OPEN", fill |-> "none", orig |-> "echo"],
                      [status |-> "MATCHED", fill |-> "all", orig |-> "echo"] },
      partial |-> 2006 ]

----------------------------------------------------------------------------
(* IntervalState                                                           *)

NewInterval(ts) ==
    [ start_ts |-> ts,
      end_ts |-> ts + INTERVAL_LEN,
      open_price |-> NoPrice,
      latest_price |-> NoPrice,
      high_price |-> NoPrice,
      low_price |-> NoPrice,
      trade_taken |-> FALSE,
      trade |-> NoTrade,
      last_eval_half_min |-> -1,
      exited |-> FALSE,
      exit_reason |-> "none",
      exit_price |-> NoPrice,
      exit_pnl |-> 0,
      last_monitor_ts |-> 0,
      sell_attempts |-> 0 ]

Elapsed(i, t) == t - i.start_ts
Remaining(i, t) == i.end_ts - t

\* abs(iv.move_pct) >= thr, thr in hundredths of a percent
\* (move_pct is 0.0 while open_price or latest_price is unset)
AbsMoveAtLeast(i, thr) ==
    IF i.open_price # NoPrice /\ i.latest_price # NoPrice
    THEN Abs(i.latest_price - i.open_price) * 10000 >= thr * i.open_price
    ELSE 0 >= thr

MoveUp(i) ==
    i.open_price # NoPrice /\ i.latest_price # NoPrice /\ i.latest_price > i.open_price

\* _get_interval_start: the start of the wall clock's 15-minute window
GetIntervalStart(t) == (t \div INTERVAL_LEN) * INTERVAL_LEN

----------------------------------------------------------------------------
(* What a step did: set by every action, read only by the properties.      *)

EvNone ==
    [ kind |-> "init",          \* "tick" | "poll" | "timeout"
      resolved |-> FALSE,       \* _resolve ran on the superseded interval
      resolve_pnl |-> 0,        \* pnl it added to session_pnl
      mid |-> -1,               \* midpoint _monitor_position fetched (-1: no fetch)
      sell_reason |-> "none",   \* reason of the _sell_position call
      sell_outcome |-> "none",  \* "gave_up" | "below_min" | "rejected" | "accepted"
      sell_shares |-> 0,        \* size of the sell order built
      sell_floor |-> 0,         \* its floor price
      buy |-> "none",           \* "failed" | "accepted": a buy order was submitted
      evaluated |-> FALSE,      \* _evaluate was called
      market |-> "unread",      \* what _fetch_market gave the _evaluate that submitted
      book |-> NoBook,          \* what _get_order_book gave it
      prev |-> NoInterval,      \* the superseded interval that _resolve was given
      confirm |-> NoConfirm,    \* what _confirm_fill returned, and on which response
      sold_shares |-> 0 ]       \* sold_shares of the exit

\* orders accepted and positions created in the interval, whether a buy
\* submission failed in it, sell orders submitted for its position, and the
\* 30 s bucket last evaluated with the number of evaluations made in it
NewHist ==
    [ accepted |-> 0, positions |-> 0, failed |-> FALSE, sell_orders |-> 0,
      eval_bucket |-> -1, evals |-> 0 ]

\* the history after an evaluation in 30 s bucket b
CountEval(h, b) ==
    IF h.eval_bucket = b
    THEN [h EXCEPT !.evals = @ + 1]
    ELSE [h EXCEPT !.eval_bucket = b, !.evals = 1]

----------------------------------------------------------------------------
(* _rotate_interval and _resolve                                           *)

\* variant: a tie resolves Down
Winner_StrictlyUp(i) == IF i.latest_price > i.open_price THEN "Up" ELSE "Down"

\* went_up = iv.latest_price >= iv.open_price
Winner(i) == IF i.latest_price >= i.open_price THEN "Up" ELSE "Down"

\* payout of a position held to resolution
Payout(i) == IF i.trade.side = Winner(i) THEN i.trade.shares * 1000 ELSE 0

\* pnl that _resolve adds to session_pnl
ResolvePnl(i) == IF i.exited THEN i.exit_pnl ELSE Payout(i) - i.trade.cost

\* variant: the payout is credited whether or not the position was exited
ResolveCredit_Always(i) == Payout(i)

\* payout that _resolve adds to the bankroll
ResolveCredit(i) == IF i.exited THEN 0 ELSE Payout(i)

BreakerTrips(pnl) == pnl <= -MAX_SESSION_LOSS

\* The first part of _on_trade_inner at wall-clock time t: rotation, and the
\* resolution of the superseded interval when it holds a trade.
\* variant: the interval is replaced once its 900 s are over
Rotates_WhenOver(i, t) == i = NoInterval \/ t > i.end_ts

\* _rotate_interval replaces the interval when the wall clock's 15-minute
\* window is not the one the interval was made for
Rotates(i, t) == i = NoInterval \/ i.start_ts # GetIntervalStart(t)

\* variant: a position sold before the end is not queued for resolution
PendingResolve_Unexited(i, rotated) ==
    rotated /\ i # NoInterval /\ i.trade # NoTrade /\ ~i.exited

\* if prev and prev.trade: self._pending_resolve = prev -- set only when the
\* interval is replaced, and cleared before _resolve is awaited
PendingResolve(i, rotated) == rotated /\ i # NoInterval /\ i.trade # NoTrade

RotateAndResolve(t) ==
    LET ts == GetIntervalStart(t)
        rotated == Rotates(iv, t)
        pending == PendingResolve(iv, rotated)
        pnl == IF pending THEN ResolvePnl(iv) ELSE 0
        credit == IF pending THEN ResolveCredit(iv) ELSE 0
    IN  [ iv |-> IF rotated THEN NewInterval(ts) ELSE iv,
          rotated |-> rotated,
          resolved |-> pending,
          prev |-> IF pending THEN iv ELSE NoInterval,
          pnl |-> pnl,
          credit |-> credit,
          bankroll |-> bankroll + credit,
          trades |-> IF pending THEN Append(trades, iv.start_ts) ELSE trades,
          session_pnl |-> session_pnl + pnl,
          circuit_breaker |-> circuit_breaker \/ (pending /\ BreakerTrips(session_pnl + pnl)) ]

\* open/latest/high/low update of _on_trade_inner
UpdatePrices(i, p) ==
    LET o == IF i.open_price = NoPrice
             THEN [i EXCEPT !.open_price = p, !.high_price = p, !.low_price = p]
             ELSE i
    IN  [o EXCEPT !.latest_price = p,
                  !.high_price = IF p > o.high_price THEN p ELSE o.high_price,
                  !.low_price = IF o.low_price = NoPrice \/ p < o.low_price
                                THEN p ELSE o.low_price]

----------------------------------------------------------------------------
(* _get_order_book and _place_order                                        *)

\* _get_order_book: best bid (highest, from 0) and best ask (lowest, from 1.0)
BestBid(book) == SetMax(book.bids, 0)
BestAsk(book) == SetMin(book.asks, 1000)
Spread(book) ==
    IF BestAsk(book) > BestBid(book) THEN BestAsk(book) - BestBid(book) ELSE 0

\* buy_price = round(min(best_ask + 0.01, 0.99), 2)
BuyPrice(book) == RoundTo(Min(BestAsk(book) + 10, 990), 10)

\* signal strength of _on_trade_inner: "STRONG", "MODERATE" or "none"
Strength(i, t) ==
    IF AbsMoveAtLeast(i, STRONG_MOVE_PCT) THEN "STRONG"
    ELSE IF AbsMoveAtLeast(i, MIN_MOVE_PCT) /\ Elapsed(i, t) > MODERATE_AFTER THEN "MODERATE"
    ELSE "none"

Signal(i) == IF MoveUp(i) THEN "Up" ELSE "Down"

Fair(strength, elapsed) ==
    IF strength = "STRONG"
    THEN (IF elapsed > LATE_AFTER THEN 850 ELSE 750)
    ELSE 700

\* the while loop of _place_order, sizes and prices in cents
RECURSIVE ShrinkSize(_, _)
ShrinkSize(size_cents, price_cents) ==
    IF size_cents > 100 /\ (size_cents * price_cents) % 100 # 0
    THEN ShrinkSize(size_cents - 1, price_cents)
    ELSE size_cents

\* _place_order: the size of the buy order, in thousandths of a share
OrderSize(price) ==
    LET price_cents == price \div 10
        raw_size_cents == (BET_SIZE \div 100) \div price_cents
        size_cents == ShrinkSize(raw_size_cents, price_cents)
    IN  IF size_cents * price_cents < MIN_ORDER_VALUE \div 100
        THEN 10 * (RoundTo(10500, price_cents) \div price_cents)
        ELSE 10 * size_cents

----------------------------------------------------------------------------
(* _sell_position up to the posting of the sell order.  i is the interval, *)
(* t the time, e the record of the step so far.                            *)

SellShares(trade) == RoundTo(trade.shares, 10)      \* round(trade["shares"], 2)

\* the bid used, doubled (the fallback max(entry_price * 0.5, 0.01) can be
\* half a thousandth): sp is what _get_clob_price gave, 0 for none
SellPrice2(trade, sp) == IF sp > 0 THEN 2 * sp ELSE Max(trade.entry_price, 20)

\* floor_price = round(max(sell_price - 0.02, 0.01), 2)
FloorPrice(trade, sp) == RoundTo(Max(SellPrice2(trade, sp) - 40, 20), 20) \div 2

\* variant: one call too many before giving up
GaveUp_OneMore(attempts) == attempts > MAX_SELL_ATTEMPTS + 1

GaveUp(attempts) == attempts > MAX_SELL_ATTEMPTS

BelowMinimum(shares, floor_price) == shares * floor_price < MIN_ORDER_VALUE

\* variant: an unsellable position is closed whatever the reason
ClosesBelowMinimum_Always(reason) == reason = reason

\* the $1 minimum closes the position only on a forced exit
ClosesBelowMinimum(reason) == reason = "forced_exit"

SellPosition(E, i, reason, t, e, h) ==
    LET attempts == i.sell_attempts + 1
        i1 == [i EXCEPT !.sell_attempts = attempts]
        e1 == [e EXCEPT !.sell_reason = reason]
    IN  IF GaveUp(attempts)
        THEN /\ iv' = [i1 EXCEPT !.exited = TRUE,
                                 !.exit_reason = reason \o "_failed",
                                 !.exit_pnl = 0]
             /\ ev' = [e1 EXCEPT !.sell_outcome = "gave_up"]
             /\ hist' = h
             /\ UNCHANGED <<pc, poll>>
        ELSE \E sp \in E.sell_prices :
             LET shares == SellShares(i.trade)
                 floor_price == FloorPrice(i.trade, sp)
                 e2 == [e1 EXCEPT !.sell_shares = shares, !.sell_floor = floor_price]
             IN  IF BelowMinimum(shares, floor_price)
                 THEN /\ iv' = IF ClosesBelowMinimum(reason)
                               THEN [i1 EXCEPT !.exited = TRUE,
                                               !.exit_reason = "forced_exit_below_min",
                                               !.exit_pnl = 0]
                               ELSE i1
                      /\ ev' = [e2 EXCEPT !.sell_outcome = "below_min"]
                      /\ hist' = h
                      /\ UNCHANGED <<pc, poll>>
                 ELSE \E res \in E.posts :
                      IF res = "accepted"
                      THEN /\ iv' = i1
                           /\ pc' = "sell_poll"
                           /\ poll' = [ kind |-> "sell", price |-> floor_price,
                                        size |-> shares, start |-> t, attempts |-> 0,
                                        all_open |-> TRUE, ctx |-> reason ]
                           /\ hist' = [h EXCEPT !.sell_orders = @ + 1]
                           /\ ev' = [e2 EXCEPT !.sell_outcome = "accepted"]
                      ELSE /\ iv' = i1
                           /\ hist' = [h EXCEPT !.sell_orders = @ + 1]
                           /\ ev' = [e2 EXCEPT !.sell_outcome = "rejected"]
                           /\ UNCHANGED <<pc, poll>>

----------------------------------------------------------------------------
(* _monitor_position                                                       *)

\* variant: the forced exit starts strictly inside the last EXIT_BEFORE_END
\* seconds
ForcedExit_Strict(remaining) == remaining < EXIT_BEFORE_END

ForcedExit(remaining) == remaining <= EXIT_BEFORE_END

MonitorThrottled(i, t) == t - i.last_monitor_ts < MONITOR_INTERVAL

\* position_pnl_pct >= take_profit_pct, position_pnl_pct <= -stop_loss_pct
TakeProfit(entry_price, current_price) ==
    (current_price - entry_price) * 100 >= TAKE_PROFIT_PCT * entry_price
StopLoss(entry_price, current_price) ==
    (current_price - entry_price) * 100 <= -(STOP_LOSS_PCT * entry_price)

\* variant: the throttle is applied before the forced exit
ExitReason_ThrottleFirst(i, t, mid) ==
    IF MonitorThrottled(i, t) THEN "none"
    ELSE IF ForcedExit(Remaining(i, t)) THEN "forced_exit"
    ELSE IF mid <= 0 THEN "none"
    ELSE IF TakeProfit(i.trade.entry_price, mid) THEN "take_profit"
    ELSE IF StopLoss(i.trade.entry_price, mid) THEN "stop_loss"
    ELSE "none"

\* which sell, if any, a monitored tick starts: the decision of
\* _monitor_position from what it read (mid: the midpoint, 0 for none,
\* -1 when it returned before fetching one)
ExitReason(i, t, mid) ==
    IF ForcedExit(Remaining(i, t)) THEN "forced_exit"
    ELSE IF MonitorThrottled(i, t) THEN "none"
    ELSE IF mid <= 0 THEN "none"
    ELSE IF TakeProfit(i.trade.entry_price, mid) THEN "take_profit"
    ELSE IF StopLoss(i.trade.entry_price, mid) THEN "stop_loss"
    ELSE "none"

MonitorPosition(E, i, t, e, h) ==
    LET fetches == ~ForcedExit(Remaining(i, t)) /\ ~MonitorThrottled(i, t)
        i1 == IF fetches THEN [i EXCEPT !.last_monitor_ts = t] ELSE i
    IN  \E mid \in (IF fetches THEN E.mids ELSE {-1}) :
        LET reason == ExitReason(i, t, mid)
            e2 == [e EXCEPT !.mid = mid]
        IN  IF reason # "none"
            THEN SellPosition(E, i1, reason, t, e2, h)
            ELSE /\ iv' = i1
                 /\ ev' = e2
                 /\ hist' = h
                 /\ UNCHANGED <<pc, poll>>

----------------------------------------------------------------------------
(* The entry logic of _on_trade_inner, and _evaluate up to the posting of  *)
(* the buy order.                                                          *)

InEntryWindow(elapsed) == elapsed >= ENTRY_START /\ elapsed <= ENTRY_END

\* variant: a bucket for every second
HalfMin_Second(elapsed) == elapsed

HalfMin(elapsed) == elapsed \div EVAL_BUCKET

\* variant: the circuit breaker is not consulted
SignalGate_NoBreaker(i, t, breaker) ==
    IF i.trade_taken \/ ~InEntryWindow(Elapsed(i, t)) THEN "taken_or_window"
    ELSE IF Strength(i, t) = "none" THEN "weak"
    ELSE IF HalfMin(Elapsed(i, t)) = i.last_eval_half_min THEN "throttled"
    ELSE "evaluate"

\* variant: only an interval that holds a position is closed to new orders
SignalGate_PositionOnly(i, t, breaker) ==
    IF breaker THEN "breaker"
    ELSE IF i.trade # NoTrade \/ ~InEntryWindow(Elapsed(i, t)) THEN "taken_or_window"
    ELSE IF Strength(i, t) = "none" THEN "weak"
    ELSE IF HalfMin(Elapsed(i, t)) = i.last_eval_half_min THEN "throttled"
    ELSE "evaluate"

\* the gates of _on_trade_inner before _evaluate; "evaluate" when all pass
SignalGate(i, t, breaker) ==
    IF breaker THEN "breaker"
    ELSE IF i.trade_taken \/ ~InEntryWindow(Elapsed(i, t)) THEN "taken_or_window"
    ELSE IF Strength(i, t) = "none" THEN "weak"
    ELSE IF HalfMin(Elapsed(i, t)) = i.last_eval_half_min THEN "throttled"
    ELSE "evaluate"

\* edge < min_edge for edge = fair - our_price, in binary floating point: of
\* the differences that are 0.02 in decimals, 0.70 - 0.68 alone is below 0.02
EdgeBelowMin(fair, price) ==
    fair - price < MIN_EDGE \/ (fair = 700 /\ price = 680)

\* variant: the spread is not looked at
MarketGate_AnySpread(i, t, market, book) ==
    IF market = "none" THEN "market"
    ELSE IF market = "closed" THEN "closed"
    ELSE IF book = NoBook THEN "book"
    ELSE IF BuyPrice(book) > MAX_ENTRY_PRICE
            \/ EdgeBelowMin(Fair(Strength(i, t), Elapsed(i, t)), BuyPrice(book)) THEN "edge"
    ELSE "submit"

\* the gates of _evaluate on what it fetched; "submit" when all pass
MarketGate(i, t, market, book) ==
    IF market = "none" THEN "market"
    ELSE IF market = "closed" THEN "closed"
    ELSE IF book = NoBook THEN "book"
    ELSE IF Spread(book) > MAX_SPREAD THEN "spread"
    ELSE IF BuyPrice(book) > MAX_ENTRY_PRICE
            \/ EdgeBelowMin(Fair(Strength(i, t), Elapsed(i, t)), BuyPrice(book)) THEN "edge"
    ELSE "submit"

\* _place_order returns an order id only for an accepted order
Accepted(res) == res = "accepted"

\* variant: the interval is never committed
AfterSubmit_Never(i, accepted) == i

\* variant: any submission, failed or not, commits the interval
AfterSubmit_Always(i, accepted) == [i EXCEPT !.trade_taken = TRUE]

\* an accepted order commits the interval; a failed submission does not
AfterSubmit(i, accepted) == IF accepted THEN [i EXCEPT !.trade_taken = TRUE] ELSE i

SignalLogic(E, i, t, breaker, e, h) ==
    LET gate == SignalGate(i, t, breaker)
    IN  IF gate # "evaluate"
        THEN /\ iv' = i
             /\ ev' = e
             /\ hist' = h
             /\ UNCHANGED <<pc, poll>>
        ELSE LET i1 == [i EXCEPT !.last_eval_half_min = HalfMin(Elapsed(i, t))]
                 h1 == CountEval(h, Elapsed(i, t) \div EVAL_BUCKET)
                 e1 == [e EXCEPT !.evaluated = TRUE]
             IN  \E market \in E.markets, book \in E.books :
                 LET mgate == MarketGate(i1, t, market, book)
                     price == BuyPrice(book)
                     size == OrderSize(price)
                     e2 == [e1 EXCEPT !.market = market, !.book = book]
                 IN  IF mgate # "submit"
                     THEN /\ iv' = i1
                          /\ ev' = e1
                          /\ hist' = h1
                          /\ UNCHANGED <<pc, poll>>
                     ELSE \E res \in E.posts :
                          IF Accepted(res)
                          THEN /\ iv' = AfterSubmit(i1, TRUE)
                               /\ pc' = "buy_poll"
                               /\ poll' = [ kind |-> "buy", price |-> price,
                                            size |-> size, start |-> t, attempts |-> 0,
                                            all_open |-> TRUE, ctx |-> Signal(i1) ]
                               /\ hist' = [h1 EXCEPT !.accepted = @ + 1]
                               /\ ev' = [e2 EXCEPT !.buy = "accepted"]
                          ELSE /\ iv' = AfterSubmit(i1, FALSE)
                               /\ hist' = [h1 EXCEPT !.failed = TRUE]
                               /\ ev' = [e2 EXCEPT !.buy = "failed"]
                               /\ UNCHANGED <<pc, poll>>

----------------------------------------------------------------------------
(* One tick: _on_trade_inner from its start to its return, or to the point *)
(* where it is suspended in _confirm_fill.                                 *)

\* times at which the next tick can be handled: the next mark, or (the feed
\* being quiet for the rest of the interval) the first mark of the next
\* interval; the last tick is the first one after E.intervals intervals
MarksAfter(E, t) ==
    { u \in { GetIntervalStart(t) + k * INTERVAL_LEN + m : k \in {0, 1}, m \in E.marks } :
        u > t }

TickTimes(E) ==
    LET far == now + 2 * INTERVAL_LEN
        next == SetMin(MarksAfter(E, now), far)
        later == SetMin({u \in MarksAfter(E, now) :
                            GetIntervalStart(u) > GetIntervalStart(now)}, far)
        last == E.intervals * INTERVAL_LEN + SetMin(E.marks, INTERVAL_LEN)
    IN  {t \in {next, later} : t <= last}

HasOpenPosition(i) == i.trade_taken /\ i.trade # NoTrade /\ ~i.exited

\* variant: the feed starts the handler as a task of its own
FeedReady_Spawned == pc \in {"idle", "buy_poll", "sell_poll"}

\* variant: only the entry (_evaluate) is detached from the feed's loop
FeedReady_EntryDetached == pc \in {"idle", "buy_poll"}

\* the feed awaits on_trade: it takes the next message only when the handler
\* of the one before has returned
FeedReady == pc = "idle"

Tick(E) ==
    /\ FeedReady
    /\ UNCHANGED <<obs, trk, cal, cls, tbl, tag>>
    /\ \E t \in TickTimes(E), p \in E.prices :
       LET r == RotateAndResolve(t)
           i == UpdatePrices(r.iv, p)
           h == IF r.rotated THEN NewHist ELSE hist
           e == [EvNone EXCEPT !.kind = "tick", !.resolved = r.resolved,
                               !.resolve_pnl = r.pnl, !.prev = r.prev]
       IN  /\ now' = t
           /\ trades' = r.trades
           /\ bankroll' = r.bankroll
           /\ session_pnl' = r.session_pnl
           /\ circuit_breaker' = r.circuit_breaker
           /\ IF HasOpenPosition(i)
              THEN MonitorPosition(E, i, t, e, h)
              ELSE SignalLogic(E, i, t, r.circuit_breaker, e, h)

----------------------------------------------------------------------------
(* _confirm_fill: one action per iteration of its polling loop, and one    *)
(* for the timeout.  The caller (_evaluate for a buy, _sell_position for a *)
(* sell) resumes in the action in which _confirm_fill returns.             *)

\* variant: the loop is given twice the time
MaxWait_Double(kind) ==
    IF kind = "buy" THEN 2 * ENTRY_ORDER_TIMEOUT ELSE 2 * EXIT_ORDER_TIMEOUT

MaxWait(kind) == IF kind = "buy" THEN ENTRY_ORDER_TIMEOUT ELSE EXIT_ORDER_TIMEOUT

\* size_matched of a response to the poll of an order
SizeMatched(E, resp, order) ==
    IF resp.fill = "all" THEN order.size
    ELSE IF resp.fill = "part" THEN E.partial
    ELSE 0

\* original_size of a response to the poll of an order
OriginalSize(resp, order) == IF resp.orig = "echo" THEN order.size ELSE 0

\* what get_order can answer for the polled order
PollResponses(E, order) ==
    { [status |-> r.status, size_matched |-> SizeMatched(E, r, order),
       original_size |-> OriginalSize(r, order)] :
        r \in {x \in E.responses : x.fill = "part" => E.partial < order.size} }

Terminal(status) == status \in {"CANCELED", "CANCELLED", "EXPIRED"}

\* variant: MATCHED with nothing matched is trusted at once
MatchedLag_AtOnce(resp, attempts) ==
    resp.status = "MATCHED" /\ resp.size_matched = 0

\* variant: any status with nothing matched is trusted from the 5th poll on
MatchedLag_AnyStatus(resp, attempts) ==
    resp.size_matched = 0 /\ attempts >= MATCHED_LAG_POLLS

\* MATCHED with nothing matched, from the 5th poll on, is taken as a full fill
MatchedLag(resp, attempts) ==
    resp.status = "MATCHED" /\ resp.size_matched = 0 /\ attempts >= MATCHED_LAG_POLLS

\* the filled size one iteration returns, -1 when the loop goes on
PollFilled(resp, attempts) ==
    IF resp.status \in {"nodata", "error"} THEN -1
    ELSE IF resp.size_matched > 0 THEN resp.size_matched
    ELSE IF Terminal(resp.status) THEN 0
    ELSE IF MatchedLag(resp, attempts) THEN resp.original_size
    ELSE -1

\* the position _evaluate records for a confirmed fill
NewTrade(side, filled_size, fill_price, limit_price) ==
    [ side |-> side,
      entry_price |-> fill_price,
      limit_price |-> limit_price,
      shares |-> filled_size,
      cost |-> RoundTo(filled_size * fill_price, 100) ]

\* variant: the exit is booked on what the exit order reports as filled
SoldShares_Reported(filled_size, trade) == filled_size

\* sold_shares = min(filled_size, trade["shares"])
SoldShares(filled_size, trade) == Min(filled_size, trade.shares)

ExitPnl(exit_price, trade, sold) == RoundTo((exit_price - trade.entry_price) * sold, 10000)

Proceeds(exit_price, sold) == RoundTo(exit_price * sold, 10000)

\* the caller's code after _confirm_fill returned (filled, price); c is the
\* record of the return
AfterConfirm(filled, price, c) ==
    IF filled <= 0
    THEN /\ ev' = [EvNone EXCEPT !.kind = c.how, !.confirm = c]
         /\ UNCHANGED <<iv, bankroll, hist>>
    ELSE IF poll.kind = "buy"
    THEN LET trade == NewTrade(poll.ctx, filled, price, poll.price)
         IN  /\ iv' = [iv EXCEPT !.trade = trade]
             /\ bankroll' = bankroll - trade.cost
             /\ hist' = [hist EXCEPT !.positions = @ + 1]
             /\ ev' = [EvNone EXCEPT !.kind = c.how, !.confirm = c]
    ELSE LET sold == SoldShares(filled, iv.trade)
             proceeds == Proceeds(price, sold)
         IN  /\ iv' = [iv EXCEPT !.exited = TRUE,
                                 !.exit_reason = poll.ctx,
                                 !.exit_price = price,
                                 !.exit_pnl = ExitPnl(price, iv.trade, sold)]
             /\ bankroll' = bankroll + proceeds
             /\ hist' = hist
             /\ ev' = [EvNone EXCEPT !.kind = c.how, !.confirm = c,
                                     !.sold_shares = sold]

Confirm(how, resp, attempts, filled, price, cancelled) ==
    [ how |-> how, kind |-> poll.kind, status |-> resp.status,
      size_matched |-> resp.size_matched, original_size |-> resp.original_size,
      attempts |-> attempts, all_open |-> poll.all_open /\ resp.status = "OPEN"
                                          /\ resp.size_matched = 0,
      waited |-> now - poll.start, cancelled |-> cancelled, cancel_ok |-> FALSE,
      filled |-> filled, price |-> price ]

PollStep(E) ==
    /\ pc \in {"buy_poll", "sell_poll"}
    /\ now - poll.start < MaxWait(poll.kind)
    /\ \E resp \in PollResponses(E, poll) :
       LET attempts == poll.attempts + 1
           filled == PollFilled(resp, attempts)
           price == IF filled > 0 THEN poll.price ELSE 0
       IN  IF filled < 0
           THEN /\ now' = now + PollLatency + PollSleep
                /\ poll' = [poll EXCEPT !.attempts = attempts,
                                        !.all_open = @ /\ resp.status = "OPEN"
                                                       /\ resp.size_matched = 0]
                /\ ev' = [EvNone EXCEPT !.kind = "poll"]
                /\ UNCHANGED <<pc, iv, bankroll, hist>>
           ELSE /\ now' = now + PollLatency
                /\ pc' = "idle"
                /\ poll' = NoPoll
                /\ AfterConfirm(filled, price,
                                Confirm("poll", resp, attempts, filled, price, FALSE))
    /\ UNCHANGED <<trades, session_pnl, circuit_breaker, obs, trk, cal, cls, tbl, tag>>

\* the loop ran out of time: cancel (which succeeds, or raises and is
\* logged) and return (0, 0)
PollTimeout ==
    /\ pc \in {"buy_poll", "sell_poll"}
    /\ now - poll.start >= MaxWait(poll.kind)
    /\ pc' = "idle"
    /\ poll' = NoPoll
    /\ \E cancel_ok \in BOOLEAN :
       AfterConfirm(0, 0, [ how |-> "timeout", kind |-> poll.kind, status |-> "none",
                            size_matched |-> 0, original_size |-> 0,
                            attempts |-> poll.attempts, all_open |-> poll.all_open,
                            waited |-> now - poll.start, cancelled |-> TRUE,
                            cancel_ok |-> cancel_ok,
                            filled |-> 0, price |-> 0 ])
    /\ UNCHANGED <<now, trades, session_pnl, circuit_breaker, obs, trk, cal, cls, tbl, tag>>

----------------------------------------------------------------------------
(* EntryObserver (entry_observer.py): a program of its own, fed by its own *)
(* price feed.  Its whole state is the record obs.                         *)

OBS_MIN_MOVE_PCT == 3          \* 0.03 %, in hundredths of a percent
OBS_ENTRY_START == 60
OBS_ENTRY_END == 840
EXIT_MONITOR_START == 600      \* the exit monitor is active from minute 10
EXIT_CUSHION_PCT == 5          \* 0.05 %

ObsIntervals == 1

NoEntry == [none |-> TRUE]
NoTema == "None"               \* None for prev_exit_tema

\* move buckets [lo, hi) in hundredths of a percent, and elapsed buckets
\* [lo, hi) in seconds
MOVE_BINS == << <<3, 5>>, <<5, 10>>, <<10, 20>>, <<20, 99900>> >>
ELAPSED_BINS == << <<60, 180>>, <<180, 420>>, <<420, 600>>, <<600, 841>> >>

\* a calibrated table: win rates in thousandths, 0 for a cell that has no
\* trustworthy rate; small early moves have none
FAIR_VALUE_TABLE ==
    [ mb \in 1..4 |-> [ eb \in 1..4 |-> IF mb = 1 /\ eb = 1 THEN 0 ELSE 620 ] ]

ObsEnv ==
    [ intervals |-> ObsIntervals,
      \* elapsed times of the ticks: two in the first 30 s bucket of the
      \* entry window, one in a later bucket, three while the exit monitor
      \* is active
      marks |-> {60, 62, 100, 610, 620, 630},
      \* BTC prices: moves of 0.04 %, 0.08 % and 0.12 % between them
      prices |-> {50000, 50020, 50060},
      \* exit_tema.get_trend()
      trends |-> {"Up", "Down", "Neutral"},
      \* the state of the higher-timeframe trend ("none": not ready)
      htfs |-> {"Up", "Down", "none"} ]

\* the observer with a tick before the entry window and ticks in two 30 s
\* buckets of it, and a filter that rejects or passes
ThrottleObsEnv ==
    [ intervals |-> ObsIntervals,
      marks |-> {10, 60, 62, 95},
      prices |-> {50000, 50060},
      trends |-> {"Up"},
      htfs |-> {"Up", "Down"} ]

\* what the last tick did, and what happened so far in the interval: read
\* only by the properties
ObsEvNone ==
    [ kind |-> "init",
      trend |-> "Neutral",      \* exit_tema.get_trend() as the exit monitor read it
      htf |-> "none",           \* the higher-timeframe trend as the filter read it
      rotated |-> FALSE,
      scored |-> FALSE,         \* the superseded interval's entry was scored
      monitored |-> FALSE,      \* the exit monitor ran
      evaluated |-> FALSE,      \* the filter-and-enter step ran
      filtered |-> FALSE,       \* the filter rejected the signal
      entered |-> FALSE,
      skipped |-> FALSE,        \* an opposing crossing was deferred
      fresh |-> FALSE,          \* the monitor's trend is not the one it was given last
      exited |-> FALSE ]

ObsNewHist(n) ==
    [ ordinal |-> n,            \* 1 for the first interval observed
      eval_bucket |-> -1, evals |-> 0,
      filtered |-> FALSE,       \* the filter rejected a signal in the interval
      seen |-> NoTema,          \* the last trend the entry's monitor was given
      deferred |-> -1,          \* elapsed time of the first crossing deferred, -1 for none
      exits |-> 0 ]

ObsNewInterval(ts) ==
    [ start_ts |-> ts,
      end_ts |-> ts + INTERVAL_LEN,
      open_price |-> NoPrice,
      latest_price |-> NoPrice,
      high_price |-> NoPrice,
      low_price |-> NoPrice,
      trade_taken |-> FALSE,
      entry |-> NoEntry,
      last_eval_half_min |-> -1 ]

ObsInit ==
    [ now |-> 0,
      first_interval |-> TRUE,
      iv |-> NoInterval,
      interval_count |-> 0,
      entry_count |-> 0,
      wins |-> 0,
      losses |-> 0,
      tema_exits |-> 0,
      tema_saved |-> 0,
      tema_cost |-> 0,
      ev |-> ObsEvNone,
      hist |-> ObsNewHist(0) ]

\* held to the end, the entry's direction is the winner (a tie is Up)
HeldWon(i) ==
    i.entry.direction = (IF i.latest_price >= i.open_price THEN "Up" ELSE "Down")

\* the scoring of a superseded interval that has an entry
ObsScore(o, prev) ==
    LET e == prev.entry
        won == IF e.exited THEN e.exit_in_direction ELSE HeldWon(prev)
    IN  [o EXCEPT !.tema_cost = IF e.exited /\ HeldWon(prev) THEN @ + 1 ELSE @,
                  !.tema_saved = IF e.exited /\ ~HeldWon(prev) THEN @ + 1 ELSE @,
                  !.wins = IF won THEN @ + 1 ELSE @,
                  !.losses = IF won THEN @ ELSE @ + 1,
                  !.ev.scored = TRUE]

\* _rotate_interval at wall-clock time t
ObsRotate(o, t) ==
    IF o.iv = NoInterval \/ o.iv.start_ts # GetIntervalStart(t)
    THEN LET prev == o.iv
             o1 == [o EXCEPT !.iv = ObsNewInterval(GetIntervalStart(t)),
                             !.hist = ObsNewHist(o.hist.ordinal + 1),
                             !.ev.rotated = TRUE]
         IN  IF o.first_interval
             THEN [o1 EXCEPT !.first_interval = FALSE]
             ELSE LET o2 == [o1 EXCEPT !.interval_count = @ + 1]
                  IN  IF prev # NoInterval /\ prev.entry # NoEntry
                      THEN ObsScore(o2, prev)
                      ELSE o2
    ELSE o

ObsUpdatePrices(i, p) ==
    LET j == IF i.open_price = NoPrice
             THEN [i EXCEPT !.open_price = p, !.high_price = p, !.low_price = p]
             ELSE i
    IN  [j EXCEPT !.latest_price = p,
                  !.high_price = IF p > j.high_price THEN p ELSE @,
                  !.low_price = IF p < j.low_price THEN p ELSE @]

\* abs(move_pct) >= thr and abs(move_pct) > thr, thr in hundredths of a percent
ObsMoveAtLeast(i, thr) == Abs(i.latest_price - i.open_price) * 10000 >= thr * i.open_price
ObsMoveAbove(i, thr) == Abs(i.latest_price - i.open_price) * 10000 > thr * i.open_price

ObsDirection(i) == IF i.latest_price > i.open_price THEN "Up" ELSE "Down"

\* the index of the bucket [lo, hi) that holds the move, 0 if none does
MoveBucket(i) ==
    LET S == { k \in 1..Len(MOVE_BINS) :
                 /\ ObsMoveAtLeast(i, MOVE_BINS[k][1])
                 /\ ~ObsMoveAtLeast(i, MOVE_BINS[k][2]) }
    IN  SetMin(S, 0 + (IF S = {} THEN 0 ELSE Len(MOVE_BINS)))

ElapsedBucket(elapsed) ==
    LET S == { k \in 1..Len(ELAPSED_BINS) :
                 elapsed >= ELAPSED_BINS[k][1] /\ elapsed < ELAPSED_BINS[k][2] }
    IN  SetMin(S, 0 + (IF S = {} THEN 0 ELSE Len(ELAPSED_BINS)))

\* lookup_fair_value: the rate of the cell of (abs move, elapsed), 0 (None)
\* when no bucket holds them or the cell has no trustworthy rate
lookup_fair_value(i, elapsed) ==
    LET mb == MoveBucket(i)
        eb == ElapsedBucket(elapsed)
    IN  IF mb = 0 \/ eb = 0 THEN 0 ELSE FAIR_VALUE_TABLE[mb][eb]

\* HTFEmaTracker.is_aligned: "unknown" (None) until the tracker is ready
is_aligned(htf, direction) ==
    IF htf = "none" THEN "unknown"
    ELSE IF htf = direction THEN "aligned" ELSE "misaligned"

ObsHalfMin(elapsed) == elapsed \div EVAL_BUCKET

Opposes(direction, trend) ==
    \/ direction = "Up" /\ trend = "Down"
    \/ direction = "Down" /\ trend = "Up"

\* variant: any trend that is not Neutral counts as a crossing
Crossed_Level(prev_tema, trend) == trend # "Neutral"

\* the trend state changed from the recorded one
Crossed(prev_tema, trend) ==
    prev_tema # NoTema /\ trend # "Neutral" /\ trend # prev_tema

\* the move is in the entry's favour by more than the cushion
CushionExceeded(i) ==
    /\ \/ i.entry.direction = "Up" /\ i.latest_price > i.open_price
       \/ i.entry.direction = "Down" /\ i.latest_price < i.open_price
    /\ ObsMoveAbove(i, EXIT_CUSHION_PCT)

InDirection(i) ==
    \/ i.entry.direction = "Up" /\ i.latest_price >= i.open_price
    \/ i.entry.direction = "Down" /\ i.latest_price < i.open_price

\* variant: the trend state is recorded only after a cushion skip
TrackTema_AfterSkip(e, trend, skipped_cushion) ==
    IF trend # "Neutral" /\ skipped_cushion
    THEN [e EXCEPT !.prev_exit_tema = trend]
    ELSE e

\* variant: the trend state is recorded after a cushion skip as well
TrackTema_Always(e, trend, skipped_cushion) ==
    IF trend # "Neutral" THEN [e EXCEPT !.prev_exit_tema = trend] ELSE e

\* the trend state is recorded, but not after a cushion skip
TrackTema(e, trend, skipped_cushion) ==
    IF trend # "Neutral" /\ ~skipped_cushion
    THEN [e EXCEPT !.prev_exit_tema = trend]
    ELSE e

\* the exit monitor of an interval that has an entry
ObsMonitor(o, t, trend) ==
    LET i == o.iv
        e == i.entry
    IN  IF ~e.exited /\ t - i.start_ts >= EXIT_MONITOR_START
        THEN LET against == Crossed(e.prev_exit_tema, trend) /\ Opposes(e.direction, trend)
                 skipped_cushion == against /\ CushionExceeded(i)
                 exits == against /\ ~CushionExceeded(i)
                 e1 == IF exits
                       THEN [e EXCEPT !.exited = TRUE,
                                      !.exit_price = i.latest_price,
                                      !.exit_in_direction = InDirection(i)]
                       ELSE e
             IN  [o EXCEPT !.iv.entry = TrackTema(e1, trend, skipped_cushion),
                           !.tema_exits = IF exits THEN @ + 1 ELSE @,
                           !.ev.monitored = TRUE,
                           !.ev.trend = trend,
                           !.ev.skipped = skipped_cushion,
                           !.ev.exited = exits,
                           !.ev.fresh = (trend # o.hist.seen),
                           !.hist.seen = IF trend # "Neutral" THEN trend ELSE @,
                           !.hist.deferred = IF skipped_cushion /\ @ = -1
                                             THEN t - i.start_ts ELSE @,
                           !.hist.exits = IF exits THEN @ + 1 ELSE @]
        ELSE o

\* variant: a filtered signal uses up the interval
AfterFilter_Traded(i) == [i EXCEPT !.trade_taken = TRUE]

\* the interval after the filter rejected a signal
AfterFilter(i) == i

\* the signal logic of an interval that has no entry
ObsSignal(o, t, trend, htf) ==
    LET i == o.iv
        elapsed == t - i.start_ts
    IN  IF o.first_interval THEN o
        ELSE IF i.trade_taken \/ elapsed < OBS_ENTRY_START \/ elapsed > OBS_ENTRY_END THEN o
        ELSE IF ~ObsMoveAtLeast(i, OBS_MIN_MOVE_PCT) THEN o
        ELSE IF lookup_fair_value(i, elapsed) = 0 THEN o
        ELSE IF ObsHalfMin(elapsed) = i.last_eval_half_min THEN o
        ELSE LET i1 == [i EXCEPT !.last_eval_half_min = ObsHalfMin(elapsed)]
                 o1 == [o EXCEPT !.ev.evaluated = TRUE,
                                 !.ev.htf = htf,
                                 !.hist = CountEval(@, elapsed \div EVAL_BUCKET)]
                 direction == ObsDirection(i)
             IN  IF is_aligned(htf, direction) = "misaligned"
                 THEN [o1 EXCEPT !.iv = AfterFilter(i1),
                                 !.ev.filtered = TRUE,
                                 !.hist.filtered = TRUE]
                 ELSE [o1 EXCEPT !.iv = [i1 EXCEPT !.trade_taken = TRUE,
                                             !.entry = [ direction |-> direction,
                                                         elapsed |-> elapsed,
                                                         prev_exit_tema |->
                                                            IF trend # "Neutral"
                                                            THEN trend ELSE NoTema,
                                                         exited |-> FALSE,
                                                         exit_price |-> NoPrice,
                                                         exit_in_direction |-> FALSE ]],
                                 !.entry_count = @ + 1,
                                 !.ev.entered = TRUE,
                                 !.hist.seen = IF trend # "Neutral" THEN trend ELSE NoTema]

\* _on_trade: one tick of the observer's feed, handled at wall-clock time t
ObsOnTrade(o, t, p, trend, htf) ==
    LET o0 == [o EXCEPT !.now = t, !.ev = [ObsEvNone EXCEPT !.kind = "tick"]]
        o1 == ObsRotate(o0, t)
        o2 == [o1 EXCEPT !.iv = ObsUpdatePrices(@, p)]
    IN  IF o2.iv.entry # NoEntry
        THEN ObsMonitor(o2, t, trend)
        ELSE ObsSignal(o2, t, trend, htf)

ObsTickTimes(E) ==
    LET far == obs.now + 2 * INTERVAL_LEN
        next == SetMin(MarksAfter(E, obs.now), far)
        later == SetMin({u \in MarksAfter(E, obs.now) :
                            GetIntervalStart(u) > GetIntervalStart(obs.now)}, far)
        last == E.intervals * INTERVAL_LEN + SetMin(E.marks, INTERVAL_LEN)
    IN  {t \in {next, later} : t <= last}

ObsTick(E) ==
    /\ \E t \in ObsTickTimes(E), p \in E.prices, trend \in E.trends, htf \in E.htfs :
          obs' = ObsOnTrade(obs, t, p, trend, htf)
    /\ UNCHANGED <<now, pc, iv, trades, bankroll, session_pnl, circuit_breaker,
                   poll, hist, ev, trk, cal, cls, tbl, tag>>

----------------------------------------------------------------------------
(* TEMA and the TrendTracker (trend.py).  Prices and averages are in      *)
(* ten-thousandths; a division that is not exact is rounded to the nearest *)
(* ten-thousandth.  None is the empty tuple, a number v is <<v>>.          *)

CANDLE_INTERVAL == 300
FAST_PERIOD == 10
SLOW_PERIOD == 80

TrendCloses == 302             \* closes fed to the tracker with the default periods
CandleCloses == 7              \* closes fed to the small tracker

NoValue == <<>>

Dollars(x) == x * 10000

\* a / b for a >= 0, b > 0, to the nearest integer
DivRound(a, b) == RoundTo(2 * a, 2 * b) \div (2 * b)

RECURSIVE SeqSum(_, _)
SeqSum(s, n) == IF n = 0 THEN 0 ELSE s[n] + SeqSum(s, n - 1)

\* the loop of _calc_ema over values[lo..hi], from the last value prev of
\* the list so far: value * k + prev * (1 - k) with k = 2 / (period + 1)
RECURSIVE EmaRun(_, _, _, _, _)
EmaRun(values, period, prev, lo, hi) ==
    IF lo > hi THEN <<>>
    ELSE IF lo = hi
    THEN << << DivRound(2 * values[lo] + (period - 1) * prev, period + 1) >> >>
    ELSE LET mid == (lo + hi) \div 2
             head == EmaRun(values, period, prev, lo, mid)
         IN  head \o EmaRun(values, period, head[Len(head)][1], mid + 1, hi)

EmaFrom(values, period, ema) ==
    ema \o EmaRun(values, period, ema[Len(ema)][1], Len(ema) + 1, Len(values))

\* variant: the seed is the first value
calc_ema_SeedFirst(values, period) ==
    IF Len(values) < period
    THEN [i \in 1..Len(values) |-> NoValue]
    ELSE EmaFrom(values, period,
                 [i \in 1..period |-> IF i < period THEN NoValue ELSE << values[1] >>])

\* _calc_ema: a list as long as values, None before the seed, which is the
\* mean of the first period values; then value * k + ema * (1 - k), k = 2 / (period + 1)
calc_ema(values, period) ==
    IF Len(values) < period
    THEN [i \in 1..Len(values) |-> NoValue]
    ELSE EmaFrom(values, period,
                 [i \in 1..period |->
                     IF i < period THEN NoValue
                     ELSE << DivRound(SeqSum(values, period), period) >>])

\* the values of a list that are not None
Clean(ema) ==
    LET kept == SelectSeq(ema, LAMBDA v : v # NoValue)
    IN  [i \in 1..Len(kept) |-> kept[i][1]]

\* variant: the two points a seeded EMA of EMAs does without are not asked for
calc_tema_Lean(closes, period) ==
    IF Len(closes) < period * 3 - 2 THEN NoValue
    ELSE LET ema1 == calc_ema(closes, period)
             ema2 == calc_ema(Clean(ema1), period)
             ema3 == calc_ema(Clean(ema2), period)
         IN  << 3 * ema1[Len(ema1)][1] - 3 * ema2[Len(ema2)][1] + ema3[Len(ema3)][1] >>

\* calc_tema: 3 * EMA1 - 3 * EMA2 + EMA3 at the last close, None for fewer
\* than 3 * period closes
calc_tema(closes, period) ==
    IF Len(closes) < period * 3 THEN NoValue
    ELSE LET ema1 == calc_ema(closes, period)
             ema2 == calc_ema(Clean(ema1), period)
             ema3 == calc_ema(Clean(ema2), period)
         IN  IF ema3 = <<>> \/ ema3[Len(ema3)] = NoValue THEN NoValue
             ELSE IF ema1[Len(ema1)] = NoValue \/ ema2[Len(ema2)] = NoValue THEN NoValue
             ELSE << 3 * ema1[Len(ema1)][1] - 3 * ema2[Len(ema2)][1] + ema3[Len(ema3)][1] >>

\* the tracker with the default periods, fed one close per tick along a
\* price path; and a small one fed ticks in the same, an earlier, the next
\* and a later candle, at two prices
TrendEnv ==
    [ candle_interval |-> CANDLE_INTERVAL,
      fast_period |-> FAST_PERIOD,
      slow_period |-> SLOW_PERIOD,
      paths |-> {"ramp", "drop", "rise", "fall"},
      steps |-> {1},
      closes |-> TrendCloses ]

CandleEnv ==
    [ candle_interval |-> 60,
      fast_period |-> 1,
      slow_period |-> 2,
      paths |-> {"free"},
      steps |-> {-1, 0, 1, 3},
      closes |-> CandleCloses ]

\* the prices a tick can have in the k-th candle of a path
PathPrices(path, k) ==
    CASE path = "ramp" -> { Dollars(99 + k) }
      [] path = "drop" -> { IF k = 1 THEN Dollars(200) ELSE Dollars(100) }
      [] path = "rise" -> { IF k <= 230 THEN Dollars(100) ELSE Dollars(150) }
      [] path = "fall" -> { IF k <= 230 THEN Dollars(150) ELSE Dollars(100) }
      [] OTHER -> { Dollars(100), Dollars(107) }

\* _min_candles, and the maxlen of the deque of closes
MinCandles(slow_period) == slow_period * 3 + 10
MaxLen(slow_period) == MinCandles(slow_period) + 50

\* what the last update_price did: read only by the properties
TrkEvNone == [ kind |-> "init", price |-> NoPrice, candle_start |-> 0, prev_start |-> 0 ]

\* TrendTracker.__init__ (periods and candle interval are set by the first
\* tick's environment)
TrkInit ==
    [ candle_interval |-> 0,
      fast_period |-> 0,
      slow_period |-> 0,
      closes |-> <<>>,
      current_candle_start |-> 0,
      current_candle_close |-> NoPrice,
      tema_fast |-> NoValue,
      tema_slow |-> NoValue,
      ready |-> FALSE,
      path |-> "none",
      fed |-> <<>>,             \* every close appended so far
      ev |-> TrkEvNone ]

\* _get_candle_start
GetCandleStart(t, ts_ms) == (ts_ms \div (1000 * t.candle_interval)) * t.candle_interval

\* variant: a full deque is emptied and filled anew
DequeAppend_Restart(closes, x, maxlen) ==
    IF Len(closes) >= maxlen THEN <<x>> ELSE Append(closes, x)

\* variant: the deque never evicts
DequeAppend_Unbounded(closes, x, maxlen) == Append(closes, x)

\* deque(maxlen).append: the oldest element goes when the deque is full
DequeAppend(closes, x, maxlen) ==
    IF Len(closes) >= maxlen
    THEN Append(SubSeq(closes, 2, Len(closes)), x)
    ELSE Append(closes, x)

\* _recalc
Recalc(t) ==
    LET f == calc_tema(t.closes, t.fast_period)
        s == calc_tema(t.closes, t.slow_period)
    IN  [t EXCEPT !.tema_fast = f, !.tema_slow = s,
                  !.ready = (f # NoValue /\ s # NoValue)]

\* variant: a tick of any other candle closes the current one
NewCandle_Differs(current, candle_start) == candle_start # current

\* the tick's candle is later than the current one
NewCandle(current, candle_start) == candle_start > current

\* update_price(price, ts)
UpdatePrice(t, price, ts) ==
    LET candle_start == GetCandleStart(t, ts)
        e == [ kind |-> "update", price |-> price, candle_start |-> candle_start,
               prev_start |-> t.current_candle_start ]
    IN  IF t.current_candle_start = 0
        THEN [t EXCEPT !.current_candle_start = candle_start,
                       !.current_candle_close = price,
                       !.ev = [e EXCEPT !.kind = "first"]]
        ELSE IF NewCandle(t.current_candle_start, candle_start)
        THEN LET t1 == IF t.current_candle_close # NoPrice
                       THEN Recalc([t EXCEPT !.closes = DequeAppend(@, t.current_candle_close,
                                                                     MaxLen(t.slow_period)),
                                             !.fed = Append(@, t.current_candle_close)])
                       ELSE t
             IN  [t1 EXCEPT !.current_candle_start = candle_start,
                            !.current_candle_close = price,
                            !.ev = [e EXCEPT !.kind = "close"]]
        ELSE [t EXCEPT !.current_candle_close = price, !.ev = e]

\* variant: a tie counts as Up
GetTrend_TieUp(t) ==
    IF ~t.ready \/ t.tema_fast = NoValue \/ t.tema_slow = NoValue THEN "Neutral"
    ELSE IF t.tema_fast[1] >= t.tema_slow[1] THEN "Up"
    ELSE "Down"

\* get_trend
GetTrend(t) ==
    IF ~t.ready \/ t.tema_fast = NoValue \/ t.tema_slow = NoValue THEN "Neutral"
    ELSE IF t.tema_fast[1] > t.tema_slow[1] THEN "Up"
    ELSE IF t.tema_fast[1] < t.tema_slow[1] THEN "Down"
    ELSE "Neutral"

\* one tick of the feed given to the tracker
TrendTick(E) ==
    /\ Len(trk.fed) < E.closes
    /\ IF trk.current_candle_start = 0
       THEN \E path \in E.paths : \E price \in PathPrices(path, 1) :
              trk' = UpdatePrice([trk EXCEPT !.candle_interval = E.candle_interval,
                                             !.fast_period = E.fast_period,
                                             !.slow_period = E.slow_period,
                                             !.path = path],
                                 price, (10 * E.candle_interval + 7) * 1000 + 250)
       ELSE \E d \in E.steps :
              LET ts == (trk.current_candle_start + d * E.candle_interval + 7) * 1000 + 250
                  k == Len(trk.fed) + 1 + (IF d > 0 THEN 1 ELSE 0)
              IN  /\ ts > 0
                  /\ \E price \in PathPrices(trk.path, k) :
                        trk' = UpdatePrice(trk, price, ts)
    /\ UNCHANGED <<now, pc, iv, trades, bankroll, session_pnl, circuit_breaker,
                   poll, hist, ev, obs, cal, cls, tbl, tag>>

----------------------------------------------------------------------------
(* simulate_intervals and classify_move (calibrate.py)                     *)

INTERVAL_SECS == 900
TEMA_CANDLE_SECS == 300

\* the most one-minute candles in an input
MaxCandles == 47
\* the largest move classified besides the ends of the last bin, in
\* thousandths of a percent
MaxMove == 250
\* the longest elapsed time classified, in seconds
MaxElapsed == 900

CalBasePrice == 50000

\* the inputs of simulate_intervals: one-minute candles from a first
\* timestamp, aligned to 900 s or not, so many of them, without the gaps (the
\* candle at index 7 or at index 0 of a window), along a price pattern; and a
\* TEMA series with no entry or with one at 1500
CalEnv ==
    [ firsts |-> {900, 960, 1740},
      counts |-> {15, 16, 31, MaxCandles},
      gaps |-> { {}, {2220}, {3120}, {2700} },
      patterns |-> {"flat", "up", "turn"},
      temas |-> { << >>, [ key \in {1500} |-> [ trend |-> "Down" ] ] } ]

\* the timestamps of candles_1m, in order
CandleTimes(first, count, gaps) ==
    SelectSeq([i \in 1..count |-> first + 60 * (i - 1)], LAMBDA ts : ts \notin gaps)

\* the candle of a timestamp: flat, 10 up a minute from the boundary, or
\* 10 above the window's open until its last minute closes 10 below
Candle(pattern, ts) ==
    LET m == (ts % INTERVAL_SECS) \div 60
    IN  CASE pattern = "up" ->
               [ ts |-> ts, open |-> CalBasePrice + 10 * m, close |-> CalBasePrice + 10 * (m + 1) ]
          [] pattern = "turn" ->
               [ ts |-> ts,
                 open |-> IF m = 0 THEN CalBasePrice ELSE CalBasePrice + 10,
                 close |-> IF m < 14 THEN CalBasePrice + 10 ELSE CalBasePrice - 10 ]
          [] OTHER -> [ ts |-> ts, open |-> CalBasePrice, close |-> CalBasePrice ]

CalStatsInit == [ total |-> 0, complete |-> 0, skipped |-> 0 ]

\* before simulate_intervals is called
CalInit ==
    [ phase |-> "idle",
      candles |-> <<>>,
      pattern |-> "flat",
      tema_series |-> << >>,
      min_ts |-> 0,
      max_ts |-> 0,
      interval_start |-> 0,
      stats |-> CalStatsInit,
      observations |-> <<>>,
      \* ghost: the windows visited, each with the number of observations
      \* before and after it
      visited |-> <<>> ]

\* by_ts: the timestamps that have a candle
ByTs(c) == { c.candles[i] : i \in 1..Len(c.candles) }

\* get_tema_at: the entry of the 5-minute candle of ts or of one of the two
\* before it, None without one
get_tema_at(tema_series, ts) ==
    LET candle_ts == (ts \div TEMA_CANDLE_SECS) * TEMA_CANDLE_SECS
        found == { k \in 0..2 : candle_ts - k * TEMA_CANDLE_SECS \in DOMAIN tema_series }
    IN  IF found # {}
        THEN << tema_series[candle_ts - SetMin(found, 2) * TEMA_CANDLE_SECS] >>
        ELSE NoValue

\* variant: a missing candle is replaced by the latest one before it in the
\* window
IntervalCandles_FillGaps(c, interval_start) ==
    IF interval_start \notin ByTs(c) THEN <<>>
    ELSE [ i \in 1..15 |->
             Candle(c.pattern,
                    SetMax({ ts \in ByTs(c) : /\ ts >= interval_start
                                              /\ ts <= interval_start + 60 * (i - 1) },
                           interval_start)) ]

\* interval_candles: the candles of minutes 0..14 up to the first missing one
IntervalCandles(c, interval_start) ==
    LET n == SetMin({ i \in 0..14 : interval_start + 60 * i \notin ByTs(c) }, 15)
    IN  [ i \in 1..n |-> Candle(c.pattern, interval_start + 60 * (i - 1)) ]

\* the observations of a complete window: one a minute from 60 s to 840 s
\* whose move from the open is at least 0.01 %; moves in thousandths of a
\* percent
WindowObservations(c, interval_start, interval_candles) ==
    LET open_price == interval_candles[1].open
        close_price == interval_candles[15].close
        final_winner == IF close_price >= open_price THEN "Up" ELSE "Down"
        tema == get_tema_at(c.tema_series, interval_start)
        tema_trend == IF tema # NoValue THEN tema[1].trend ELSE "Neutral"
        At(minute_idx) ==
            LET price == interval_candles[minute_idx + 1].close
                direction == IF price > open_price THEN "Up" ELSE "Down"
                abs_move == (Abs(price - open_price) * 100000) \div open_price
            IN  [ interval_ts |-> interval_start,
                  elapsed |-> (minute_idx + 1) * 60,
                  move_pct |-> IF price >= open_price THEN abs_move ELSE 0 - abs_move,
                  abs_move |-> abs_move,
                  direction |-> direction,
                  final_winner |-> final_winner,
                  won |-> (direction = final_winner),
                  tema_trend |-> tema_trend,
                  tema_aligned |-> IF tema_trend # "Neutral"
                                   THEN << direction = tema_trend >> ELSE NoValue,
                  skip |-> (Abs(price - open_price) * 10000 < open_price) ]
        all == SelectSeq([ i \in 1..14 |-> At(i - 1) ], LAMBDA o : ~o.skip)
    IN  [ i \in 1..Len(all) |->
            [ f \in DOMAIN all[i] \ {"skip"} |-> all[i][f] ] ]

\* simulate_intervals up to its loop
SimulateStart(E) ==
    /\ cal.phase = "idle"
    /\ \E first \in E.firsts, count \in E.counts, gaps \in E.gaps,
          pattern \in E.patterns, tema_series \in E.temas :
          LET candles_1m == CandleTimes(first, count, gaps)
              min_ts == candles_1m[1]
              max_ts == candles_1m[Len(candles_1m)]
          IN  cal' = [ CalInit EXCEPT
                         !.phase = "loop",
                         !.candles = candles_1m,
                         !.pattern = pattern,
                         !.tema_series = tema_series,
                         !.min_ts = min_ts,
                         !.max_ts = max_ts,
                         !.interval_start = min_ts - (min_ts % INTERVAL_SECS) + INTERVAL_SECS ]
    /\ UNCHANGED <<now, pc, iv, trades, bankroll, session_pnl, circuit_breaker,
                   poll, hist, ev, obs, trk, cls, tbl, tag>>

\* one pass of the loop of simulate_intervals
SimulateWindow ==
    /\ cal.phase = "loop"
    /\ cal.interval_start + INTERVAL_SECS <= cal.max_ts
    /\ LET interval_candles == IntervalCandles(cal, cal.interval_start)
           complete == Len(interval_candles) >= 15
           found == IF complete
                    THEN WindowObservations(cal, cal.interval_start, interval_candles)
                    ELSE <<>>
       IN  cal' = [ cal EXCEPT
                      !.stats = [ total |-> @.total + 1,
                                  complete |-> @.complete + (IF complete THEN 1 ELSE 0),
                                  skipped |-> @.skipped + (IF complete THEN 0 ELSE 1) ],
                      !.observations = @ \o found,
                      !.visited = Append(@, [ interval_start |-> cal.interval_start,
                                              complete |-> complete,
                                              before |-> Len(cal.observations),
                                              after |-> Len(cal.observations) + Len(found) ]),
                      !.interval_start = @ + INTERVAL_SECS ]
    /\ UNCHANGED <<now, pc, iv, trades, bankroll, session_pnl, circuit_breaker,
                   poll, hist, ev, obs, trk, cls, tbl, tag>>

\* the loop of simulate_intervals ends
SimulateReturn ==
    /\ cal.phase = "loop"
    /\ ~(cal.interval_start + INTERVAL_SECS <= cal.max_ts)
    /\ cal' = [ cal EXCEPT !.phase = "done" ]
    /\ UNCHANGED <<now, pc, iv, trades, bankroll, session_pnl, circuit_breaker,
                   poll, hist, ev, obs, trk, cls, tbl, tag>>

\* the labels of MOVE_BINS
MOVE_LABELS == << "0.03-0.05", "0.05-0.10", "0.10-0.20", "0.20+" >>

\* variant: a bin includes its upper bound
classify_move_Closed(abs_pct) ==
    LET S == { k \in 1..Len(MOVE_BINS) :
                 MOVE_BINS[k][1] * 10 <= abs_pct /\ abs_pct <= MOVE_BINS[k][2] * 10 }
    IN  IF S = {} THEN "None" ELSE MOVE_LABELS[SetMin(S, Len(MOVE_BINS))]

\* classify_move: the label of the first bin with lo <= abs_pct < hi, None
\* without one; abs_pct in thousandths of a percent
classify_move(abs_pct) ==
    LET S == { k \in 1..Len(MOVE_BINS) :
                 MOVE_BINS[k][1] * 10 <= abs_pct /\ abs_pct < MOVE_BINS[k][2] * 10 }
    IN  IF S = {} THEN "None" ELSE MOVE_LABELS[SetMin(S, Len(MOVE_BINS))]

\* the labels of ELAPSED_BINS
ELAPSED_LABELS == << "60-180", "180-420", "420-600", "600-840" >>

\* variant: the last bin ends at 840
classify_elapsed_To840(secs) ==
    LET S == { k \in 1..Len(ELAPSED_BINS) :
                 /\ ELAPSED_BINS[k][1] <= secs
                 /\ secs < (IF k = Len(ELAPSED_BINS) THEN 840 ELSE ELAPSED_BINS[k][2]) }
    IN  IF S = {} THEN "None" ELSE ELAPSED_LABELS[SetMin(S, Len(ELAPSED_BINS))]

\* classify_elapsed: the label of the first bin with lo <= secs < hi, None
\* without one
classify_elapsed(secs) ==
    LET S == { k \in 1..Len(ELAPSED_BINS) :
                 ELAPSED_BINS[k][1] <= secs /\ secs < ELAPSED_BINS[k][2] }
    IN  IF S = {} THEN "None" ELSE ELAPSED_LABELS[SetMin(S, Len(ELAPSED_BINS))]

\* before classify_move or classify_elapsed is called
ClsInit == [ abs_pct |-> NoValue, label |-> "None", secs |-> NoValue, elapsed_label |-> "None" ]

\* a call of classify_move, on a move up to MaxMove or at the end of the
\* last bin
ClassifyMove ==
    /\ \E abs_pct \in 0..MaxMove \cup {998999, 999000, 999001} :
          cls' = [ ClsInit EXCEPT !.abs_pct = << abs_pct >>, !.label = classify_move(abs_pct) ]
    /\ UNCHANGED <<now, pc, iv, trades, bankroll, session_pnl, circuit_breaker,
                   poll, hist, ev, obs, trk, cal, tbl, tag>>

\* a call of classify_elapsed, on an elapsed time up to MaxElapsed
ClassifyElapsed ==
    /\ \E secs \in 0..MaxElapsed :
          cls' = [ ClsInit EXCEPT !.secs = << secs >>, !.elapsed_label = classify_elapsed(secs) ]
    /\ UNCHANGED <<now, pc, iv, trades, bankroll, session_pnl, circuit_breaker,
                   poll, hist, ev, obs, trk, cal, tbl, tag>>

----------------------------------------------------------------------------
(* compute_table and the bot table of main (calibrate.py).  Win rates are  *)
(* in ten-thousandths.                                                     *)

MIN_SAMPLES == 30

\* the observations of an input, by kind: two kinds in one cell, won and
\* lost, with the trend; one lost in another cell, at 840 s; one won against
\* the trend; one below every move bin
TblKinds ==
    << [ abs_move |-> 70, elapsed |-> 60, won |-> TRUE, tema_aligned |-> << TRUE >> ],
       [ abs_move |-> 70, elapsed |-> 120, won |-> FALSE, tema_aligned |-> << TRUE >> ],
       [ abs_move |-> 150, elapsed |-> 840, won |-> FALSE, tema_aligned |-> << TRUE >> ],
       [ abs_move |-> 70, elapsed |-> 60, won |-> TRUE, tema_aligned |-> << FALSE >> ],
       [ abs_move |-> 20, elapsed |-> 60, won |-> TRUE, tema_aligned |-> << TRUE >> ] >>

\* how many observations of a kind an input has
TblRuns == {0, 1, MIN_SAMPLES - 1, MIN_SAMPLES}

\* the observations of an input: runs[k] of kind k, kind after kind
RECURSIVE TblObservations(_, _)
TblObservations(runs, k) ==
    IF k = 0 THEN <<>>
    ELSE TblObservations(runs, k - 1) \o [ i \in 1..runs[k] |-> TblKinds[k] ]

\* round(wins / total, 4), ties to the even digit
Round4(wins, total) ==
    LET q == (wins * 10000) \div total
        r == (wins * 10000) % total
    IN  IF 2 * r > total THEN q + 1
        ELSE IF 2 * r < total THEN q
        ELSE IF q % 2 = 0 THEN q ELSE q + 1

\* the win_rate of a cell: round(wr, 4) if wr else None, with wr = wins / total
WinRate(wins, total) ==
    IF total > 0 /\ wins > 0 THEN << Round4(wins, total) >> ELSE NoValue

\* the filter_fn of a table
Passes(filter, o) ==
    CASE filter = "aligned" -> o.tema_aligned = << TRUE >>
      [] filter = "misaligned" -> o.tema_aligned = << FALSE >>
      [] OTHER -> TRUE

\* compute_table: the cells that have an observation, each with its count
\* and win rate
compute_table(observations, filter) ==
    LET keyed == [ i \in 1..Len(observations) |->
                     << classify_move(observations[i].abs_move),
                        classify_elapsed(observations[i].elapsed) >> ]
        kept == { i \in 1..Len(observations) :
                    /\ Passes(filter, observations[i])
                    /\ keyed[i][1] # "None"
                    /\ keyed[i][2] # "None" }
        keys == { keyed[i] : i \in kept }
    IN  [ key \in keys |->
            LET total == Cardinality({ i \in kept : keyed[i] = key })
                wins == Cardinality({ i \in kept : keyed[i] = key /\ observations[i].won })
            IN  [ win_rate |-> WinRate(wins, total), count |-> total ] ]

\* variant: a cell is taken over whatever its count
BotCell_AnyCount(table, mb, eb) ==
    IF << mb, eb >> \in DOMAIN table THEN table[<< mb, eb >>].win_rate ELSE NoValue

\* a cell of bot_table: the win rate of the aligned table's cell if it has
\* one and its count is at least MIN_SAMPLES, None otherwise
BotCell(table, mb, eb) ==
    LET key == << mb, eb >>
        wr == IF key \in DOMAIN table THEN table[key].win_rate ELSE NoValue
        n == IF key \in DOMAIN table THEN table[key].count ELSE 0
    IN  IF wr # NoValue /\ n >= MIN_SAMPLES THEN wr ELSE NoValue

TblLabels == { MOVE_LABELS[i] : i \in 1..Len(MOVE_LABELS) }
                 \X { ELAPSED_LABELS[i] : i \in 1..Len(ELAPSED_LABELS) }

\* before main computes its tables
TblInit ==
    [ phase |-> "idle",
      runs |-> [ k \in 1..Len(TblKinds) |-> 0 ],
      all_table |-> << >>,
      aligned_table |-> << >>,
      misaligned_table |-> << >>,
      bot_table |-> [ key \in TblLabels |-> NoValue ] ]

\* steps 4 and 7 of main on the observations of an input; main returns
\* before them without observations
ComputeTables ==
    /\ tbl.phase = "idle"
    /\ \E runs \in [ 1..Len(TblKinds) -> TblRuns ] :
          LET observations == TblObservations(runs, Len(TblKinds))
              aligned_table == compute_table(observations, "aligned")
          IN  tbl' = IF observations = <<>>
                     THEN [ tbl EXCEPT !.phase = "no_data" ]
                     ELSE [ phase |-> "done",
                            runs |-> runs,
                            all_table |-> compute_table(observations, "all"),
                            aligned_table |-> aligned_table,
                            misaligned_table |-> compute_table(observations, "misaligned"),
                            bot_table |-> [ key \in TblLabels |->
                                              BotCell(aligned_table, key[1], key[2]) ] ]
    /\ UNCHANGED <<now, pc, iv, trades, bankroll, session_pnl, circuit_breaker,
                   poll, hist, ev, obs, trk, cal, cls, tag>>

----------------------------------------------------------------------------
(* The TEMA series of calibrate.main and the tag of a window, for two     *)
(* candle histories that are the same before the window.                   *)

TEMA_FAST == 10
TEMA_SLOW == 80

\* the window tagged starts at 900 * TagIntervals or one window later
TagIntervals == 81

\* the histories: one-minute candles from 0, of a feed that has only the
\* last minute of every five until 15 minutes before the window and every
\* minute from then on; before the window at 100, or stepping from 100 to 110
\* or from 110 to 100 fifty minutes before it; from the window's start on,
\* for no, two or five minutes, at a price of their own
TagEnv ==
    [ starts |-> { INTERVAL_SECS * TagIntervals, INTERVAL_SECS * (TagIntervals + 1) },
      pres |-> {"flat", "rise", "fall"},
      posts |-> {99, 100, 101},
      tails |-> {0, 2, 5} ]

\* a list given by a rule, as the list of its values
AsList(f) == SubSeq(f, 1, Len(f))

\* candles_1m: one price a candle
TagCandles(start, pre, tail, post) ==
    LET sparse == (start - INTERVAL_SECS) \div TEMA_CANDLE_SECS
        Ts(i) == IF i <= sparse
                 THEN TEMA_CANDLE_SECS * i - 60
                 ELSE start - INTERVAL_SECS + 60 * (i - sparse - 1)
    IN  AsList([ i \in 1..(sparse + 15 + tail) |->
            LET ts == Ts(i)
                early == ts < start - 3000
                p == IF ts >= start THEN post
                     ELSE CASE pre = "rise" -> IF early THEN 100 ELSE 110
                            [] pre = "fall" -> IF early THEN 110 ELSE 100
                            [] OTHER -> 100
            IN  [ ts |-> ts, open |-> Dollars(p), high |-> Dollars(p),
                  low |-> Dollars(p), close |-> Dollars(p) ] ])

\* build_5min_candles: a candle for every 300 s bucket that has a
\* one-minute candle, in order of time, open of the first, high and low over
\* all, close of the last of them
build_5min_candles(candles_1m) ==
    LET bucket == AsList([ i \in 1..Len(candles_1m) |->
                      (candles_1m[i].ts \div TEMA_CANDLE_SECS) * TEMA_CANDLE_SECS ])
        buckets == { bucket[i] : i \in 1..Len(candles_1m) }
        newest == CHOOSE b \in buckets : \A a \in buckets : a <= b
        sorted == SelectSeq([ k \in 1..(newest \div TEMA_CANDLE_SECS + 1) |->
                                TEMA_CANDLE_SECS * (k - 1) ],
                            LAMBDA b : b \in buckets)
        members == [ b \in buckets |-> { i \in 1..Len(candles_1m) : bucket[i] = b } ]
    IN  AsList([ n \in 1..Len(sorted) |->
            LET in_bucket == members[sorted[n]]
                first == SetMin(in_bucket, Len(candles_1m))
                last == SetMax(in_bucket, 1)
            IN  [ ts |-> sorted[n],
                  open |-> candles_1m[first].open,
                  high |-> SetMax({ candles_1m[i].high : i \in in_bucket }, candles_1m[first].high),
                  low |-> SetMin({ candles_1m[i].low : i \in in_bucket }, candles_1m[first].low),
                  close |-> candles_1m[last].close ] ])

\* the closes up to and including candle i, counted from 0
TemaWindow(closes, i) == SubSeq(closes, 1, i + 1)

\* the entry of a candle: both values at its close and the trend they give,
\* None when either is missing
TemaTrend(tf, ts) ==
    IF tf # NoValue /\ ts # NoValue
    THEN << [ tema_fast |-> tf[1], tema_slow |-> ts[1],
              trend |-> IF tf[1] > ts[1] THEN "Up"
                        ELSE IF tf[1] < ts[1] THEN "Down" ELSE "Neutral" ] >>
    ELSE NoValue

\* the entry of candle i, counted from 0
TemaEntry(closes, i) ==
    CHOOSE entry \in { TemaTrend(tf, ts) :
                         tf \in { calc_tema(TemaWindow(closes, i), TEMA_FAST) },
                         ts \in { calc_tema(TemaWindow(closes, i), TEMA_SLOW) } } : TRUE

\* compute_tema_series: for every candle from number TEMA_SLOW * 3 + 1 on
\* that has both values, the trend at its timestamp
compute_tema_series(candles_5m) ==
    LET closes == AsList([ n \in 1..Len(candles_5m) |-> candles_5m[n].close ])
        min_needed == TEMA_SLOW * 3 + 1
        entries == { << candles_5m[i + 1].ts, TemaEntry(closes, i) >> :
                       i \in min_needed..(Len(candles_5m) - 1) }
        kept == { e \in entries : e[2] # NoValue }
    IN  [ ts \in { e[1] : e \in kept } |-> (CHOOSE e \in kept : e[1] = ts)[2][1] ]

\* the tema_trend of the observations of the window that starts at start
WindowTag(candles_1m, start) ==
    LET tema_series == compute_tema_series(build_5min_candles(candles_1m))
        tema == get_tema_at(tema_series, start)
    IN  IF tema # NoValue THEN tema[1].trend ELSE "Neutral"

\* one run of steps 2 and 3 of main for each history of TagEnv: the tag of
\* the window at start
TagRuns(E) ==
    LET tags == { << <<start, pre, tail, post>>,
                     WindowTag(TagCandles(start, pre, tail, post), start) >> :
                    start \in E.starts, pre \in E.pres, tail \in E.tails,
                    post \in E.posts }
    IN  [ x \in { y[1] : y \in tags } |-> (CHOOSE y \in tags : y[1] = x)[2] ]

\* before the two runs
TagInit ==
    [ phase |-> "idle", start |-> 0, pre |-> "flat", tail |-> 0,
      post_a |-> 0, post_b |-> 0, tag_a |-> "Neutral", tag_b |-> "Neutral" ]

\* two runs of steps 2 and 3 of main, on histories that agree on every
\* candle before start
TagPair(E) ==
    /\ tag.phase = "idle"
    /\ \E runs \in {TagRuns(E)} :
       \E start \in E.starts, pre \in E.pres, tail \in E.tails,
          post_a \in E.posts, post_b \in E.posts :
          tag' = [ phase |-> "done", start |-> start, pre |-> pre, tail |-> tail,
                   post_a |-> post_a, post_b |-> post_b,
                   tag_a |-> runs[<<start, pre, tail, post_a>>],
                   tag_b |-> runs[<<start, pre, tail, post_b>>] ]
    /\ UNCHANGED <<now, pc, iv, trades, bankroll, session_pnl, circuit_breaker,
                   poll, hist, ev, obs, trk, cal, cls, tbl>>

----------------------------------------------------------------------------

Init ==
    /\ now = 0
    /\ pc = "idle"
    /\ iv = NoInterval
    /\ trades = <<>>
    /\ bankroll = 0
    /\ session_pnl = 0
    /\ circuit_breaker = FALSE
    /\ poll = NoPoll
    /\ hist = NewHist
    /\ ev = EvNone
    /\ obs = ObsInit
    /\ trk = TrkInit
    /\ cal = CalInit
    /\ cls = ClsInit
    /\ tbl = TblInit
    /\ tag = TagInit

Next == Tick(Env) \/ PollStep(Env) \/ PollTimeout

Spec == Init /\ [][Next]_vars

NextLong == Tick(LongEnv) \/ PollStep(LongEnv) \/ PollTimeout

SpecLong == Init /\ [][NextLong]_vars

NextGate == Tick(GateEnv) \/ PollStep(GateEnv) \/ PollTimeout

SpecGate == Init /\ [][NextGate]_vars

NextObs == ObsTick(ObsEnv)

SpecObs == Init /\ [][NextObs]_vars

NextStall == Tick(StallEnv) \/ PollStep(StallEnv) \/ PollTimeout

\* every poll returns and the loop's test is made again: the handler is
\* not starved while it polls
SpecStall ==
    Init /\ [][NextStall]_vars /\ WF_vars(PollStep(StallEnv)) /\ WF_vars(PollTimeout)

NextTrend == TrendTick(TrendEnv)

SpecTrend == Init /\ [][NextTrend]_vars

NextCandle == TrendTick(CandleEnv)

NextCalibrate == SimulateStart(CalEnv) \/ SimulateWindow \/ SimulateReturn

SpecCalibrate == Init /\ [][NextCalibrate]_vars

NextTag == TagPair(TagEnv)

SpecTag == Init /\ [][NextTag]_vars

NextTables == ComputeTables

SpecTables == Init /\ [][NextTables]_vars

NextClassify == ClassifyMove \/ ClassifyElapsed

SpecClassify == Init /\ [][NextClassify]_vars

SpecCandle == Init /\ [][NextCandle]_vars

NextThrottle ==
    Tick(ThrottleEnv) \/ PollStep(ThrottleEnv) \/ PollTimeout \/ ObsTick(ThrottleObsEnv)

SpecThrottle == Init /\ [][NextThrottle]_vars

----------------------------------------------------------------------------
(* Properties.                                                             *)

\* the tick just handled found the interval inside the entry window with a
\* STRONG or MODERATE signal in a 30 s bucket not yet evaluated: only the
\* circuit breaker or trade_taken can have kept it from _evaluate
SignalWasLive ==
    /\ pc = "idle"
    /\ ev.kind = "tick"
    /\ iv # NoInterval
    /\ InEntryWindow(Elapsed(iv, now))
    /\ Strength(iv, now) # "none"
    /\ HalfMin(Elapsed(iv, now)) # iv.last_eval_half_min

\* _confirm_fill has just returned to _evaluate / to _sell_position
BuyConfirmed == ev.confirm # NoConfirm /\ ev.confirm.kind = "buy"
SellConfirmed == ev.confirm # NoConfirm /\ ev.confirm.kind = "sell"

\* C1: a resolution that leaves session_pnl at or below -MAX_SESSION_LOSS
\* sets the circuit breaker; once set it stays set, and no step taken with
\* it set submits a buy order.
C1_CircuitBreaker ==
    [][ /\ (session_pnl' <= -MAX_SESSION_LOSS => circuit_breaker')
        /\ (circuit_breaker => circuit_breaker')
        /\ (circuit_breaker' => ev'.buy = "none") ]_vars

\* the breaker is set and a later tick, which did not resolve anything, met
\* every other condition of an entry
C1_Witness ==
    /\ circuit_breaker
    /\ session_pnl <= -MAX_SESSION_LOSS
    /\ SignalWasLive
    /\ ~ev.resolved
    /\ ~iv.trade_taken

\* C2: within one interval at most one buy order is accepted and at most
\* one position is created.
C2_OneBuyPerInterval == hist.accepted <= 1 /\ hist.positions <= 1

\* an order was accepted and filled, and a later tick of the interval met
\* every other condition of an entry
C2_Witness ==
    /\ hist.accepted = 1
    /\ hist.positions = 1
    /\ SignalWasLive
    /\ iv.trade # NoTrade

\* C3, as stated: the shares of a position are the size_matched of the
\* response that confirmed the fill, and no position is created on a
\* response whose size_matched is 0.
C3_SharesAreSizeMatched ==
    BuyConfirmed =>
        /\ (iv.trade # NoTrade => iv.trade.shares = ev.confirm.size_matched)
        /\ (ev.confirm.size_matched = 0 => iv.trade = NoTrade)

\* C3, amended: the shares of a position are the size_matched of the
\* confirming response when that is positive; when the response has status
\* MATCHED, size_matched 0 and is the fifth or a later poll, the position is
\* created with the response's original_size (if positive); in every other
\* case no position is created.
C3_SharesAreSizeMatchedOrLaggedOriginal ==
    BuyConfirmed =>
        IF ev.confirm.size_matched > 0
        THEN iv.trade # NoTrade /\ iv.trade.shares = ev.confirm.size_matched
        ELSE IF /\ ev.confirm.how = "poll"
                /\ ev.confirm.status = "MATCHED"
                /\ ev.confirm.attempts >= MATCHED_LAG_POLLS
                /\ ev.confirm.original_size > 0
        THEN iv.trade # NoTrade /\ iv.trade.shares = ev.confirm.original_size
        ELSE iv.trade = NoTrade

\* a partial fill: the position holds size_matched, less than the order
C3_Witness ==
    /\ BuyConfirmed
    /\ ev.confirm.size_matched > 0
    /\ ev.confirm.size_matched < ev.confirm.original_size
    /\ iv.trade # NoTrade
    /\ iv.trade.shares = ev.confirm.size_matched

\* C4: when every poll of a buy order answered OPEN with size_matched 0,
\* _confirm_fill returns only after the entry timeout, cancels the order and
\* reports a filled size of 0, and no position is created.
C4_OpenUntilTimeout ==
    (BuyConfirmed /\ ev.confirm.all_open) =>
        /\ ev.confirm.how = "timeout"
        /\ ev.confirm.waited >= ENTRY_ORDER_TIMEOUT
        /\ ev.confirm.cancelled
        /\ ev.confirm.filled = 0
        /\ iv.trade = NoTrade
        /\ hist.positions = 0

\* a buy order polled at least five times, always OPEN with nothing matched
C4_Witness ==
    /\ BuyConfirmed
    /\ ev.confirm.all_open
    /\ ev.confirm.attempts >= MATCHED_LAG_POLLS
    /\ iv.trade_taken

\* C5: once an accepted buy order has ended with zero fill, the interval
\* stays without a position and no buy order is submitted in it again.
C5_UnfilledIsTerminal ==
    [][ ( /\ pc = "idle"
          /\ iv # NoInterval
          /\ iv.trade_taken
          /\ iv.trade = NoTrade
          /\ iv'.start_ts = iv.start_ts )
        => ( /\ ev'.buy = "none"
             /\ pc' = "idle"
             /\ iv'.trade_taken
             /\ iv'.trade = NoTrade ) ]_vars

\* the order of the interval went unfilled and a later tick met every other
\* condition of an entry
C5_Witness ==
    /\ SignalWasLive
    /\ iv.trade_taken
    /\ iv.trade = NoTrade
    /\ hist.accepted = 1

\* C6: a buy order that fails at submission creates no position and leaves
\* the interval not marked as traded.
C6_FailedSubmissionRetries ==
    ev.buy = "failed" =>
        /\ pc = "idle"
        /\ ~iv.trade_taken
        /\ iv.trade = NoTrade
        /\ hist.accepted = 0
        /\ hist.positions = 0

\* a later evaluation of the same interval submitted a new order, accepted
C6_Witness ==
    /\ hist.failed
    /\ ev.buy = "accepted"
    /\ hist.accepted = 1

\* C7: a tick that monitors an open position sells for "forced_exit" exactly
\* when at most EXIT_BEFORE_END seconds remain, whatever the throttle and
\* the price; otherwise for "take_profit" exactly when a positive midpoint
\* was fetched and the gain is at least TAKE_PROFIT_PCT; otherwise for
\* "stop_loss" exactly when the loss is at least STOP_LOSS_PCT.
C7_ExitTriggerOrder ==
    [][ ( /\ pc = "idle"
          /\ ev'.kind = "tick"
          /\ iv # NoInterval
          /\ iv'.start_ts = iv.start_ts
          /\ HasOpenPosition(iv) )
        => LET forced == iv.end_ts - now' <= EXIT_BEFORE_END
               entry == iv.trade.entry_price
               gain == (ev'.mid - entry) * 100
               profit == ev'.mid > 0 /\ gain >= TAKE_PROFIT_PCT * entry
               loss == ev'.mid > 0 /\ gain <= -(STOP_LOSS_PCT * entry)
           IN  /\ ev'.sell_reason \in {"none", "forced_exit", "take_profit", "stop_loss"}
               /\ (ev'.sell_reason = "forced_exit") <=> forced
               /\ (ev'.sell_reason = "take_profit") <=> (~forced /\ profit)
               /\ (ev'.sell_reason = "stop_loss") <=> (~forced /\ ~profit /\ loss) ]_vars

\* a forced exit started less than MONITOR_INTERVAL seconds after the
\* monitor last fetched a price
C7_Witness ==
    /\ ev.sell_reason = "forced_exit"
    /\ iv.last_monitor_ts > 0
    /\ now - iv.last_monitor_ts < MONITOR_INTERVAL
    /\ iv.end_ts - now <= EXIT_BEFORE_END

\* C8: at most MAX_SELL_ATTEMPTS sell orders are submitted for a position;
\* the call after them submits none and marks the position exited with
\* exit_reason "<reason>_failed" and exit_pnl 0.
C8_SellAttemptsBounded ==
    iv # NoInterval =>
        /\ hist.sell_orders <= MAX_SELL_ATTEMPTS
        /\ iv.sell_attempts <= MAX_SELL_ATTEMPTS + 1
        /\ (iv.sell_attempts > MAX_SELL_ATTEMPTS =>
               /\ iv.exited
               /\ iv.exit_pnl = 0
               /\ iv.exit_reason \in {"forced_exit_failed", "take_profit_failed",
                                      "stop_loss_failed"})
        /\ (ev.sell_outcome = "gave_up" =>
               /\ pc = "idle"
               /\ iv.sell_attempts = MAX_SELL_ATTEMPTS + 1
               /\ iv.exit_reason = ev.sell_reason \o "_failed")

\* the fourth call, after three sell orders that did not sell
C8_Witness ==
    /\ ev.sell_outcome = "gave_up"
    /\ hist.sell_orders = MAX_SELL_ATTEMPTS
    /\ iv.exited

\* C9: when shares times floor price is below $1 no sell order is
\* submitted; the position is marked exited, with exit_pnl 0, if the reason
\* is forced_exit, and stays open otherwise.
C9_BelowMinimumSell ==
    ( /\ ev.sell_reason # "none"
      /\ ev.sell_outcome # "gave_up"
      /\ ev.sell_shares * ev.sell_floor < MIN_ORDER_VALUE )
    => /\ ev.sell_outcome = "below_min"
       /\ pc = "idle"
       /\ IF ev.sell_reason = "forced_exit"
          THEN iv.exited /\ iv.exit_pnl = 0 /\ iv.exit_reason = "forced_exit_below_min"
          ELSE ~iv.exited /\ iv.exit_reason = "none"

\* a forced exit below the minimum, the second call for the position, no
\* order having been submitted: the first call, not forced, left it open
C9_Witness ==
    /\ ev.sell_outcome = "below_min"
    /\ ev.sell_reason = "forced_exit"
    /\ iv.exited
    /\ iv.sell_attempts = 2
    /\ hist.sell_orders = 0

\* C10: the shares on which an exit is booked never exceed the shares of
\* the position: sold_shares, the proceeds credited to the bankroll and the
\* size of exit_pnl are bounded by what the position's shares give at the
\* exit price.
C10_SoldSharesCapped ==
    [][ ( /\ ev'.confirm # NoConfirm
          /\ ev'.confirm.kind = "sell"
          /\ ev'.confirm.filled > 0 )
        => LET shares == iv.trade.shares
               entry == iv.trade.entry_price
               exit == iv'.exit_price
           IN  /\ iv'.exited
               /\ ev'.sold_shares <= shares
               /\ bankroll' - bankroll <= RoundTo(exit * shares, 10000)
               /\ Abs(iv'.exit_pnl) <= Abs(RoundTo((exit - entry) * shares, 10000)) ]_vars

\* the exit order reported more filled than the position holds
C10_Witness ==
    /\ SellConfirmed
    /\ ev.confirm.filled > iv.trade.shares
    /\ ev.sold_shares = iv.trade.shares
    /\ iv.exited

\* a tick was delivered to the feed after the polled order was submitted
TickArrivedWhilePolling ==
    /\ pc # "idle"
    /\ \E u \in MarksAfter(Env, poll.start) : u <= now

\* C11: when an interval that holds a position is superseded, session_pnl
\* grows by payout - cost and the bankroll by payout if the position was not
\* exited, payout being its shares if its side is the winner and 0 if not,
\* and the winner being Up exactly when latest_price >= open_price; if it
\* was exited, session_pnl grows by its exit_pnl and the bankroll is left
\* as it is.
C11_ResolutionPnl ==
    [][ ( /\ iv # NoInterval
          /\ iv.trade # NoTrade
          /\ iv'.start_ts # iv.start_ts )
        => LET winner == IF iv.latest_price >= iv.open_price THEN "Up" ELSE "Down"
               payout == IF iv.trade.side = winner THEN 1000 * iv.trade.shares ELSE 0
           IN  /\ ev'.resolved
               /\ IF iv.exited
                  THEN /\ session_pnl' - session_pnl = iv.exit_pnl
                       /\ bankroll' = bankroll
                  ELSE /\ session_pnl' - session_pnl = payout - iv.trade.cost
                       /\ bankroll' - bankroll = payout ]_vars

\* an Up position held to the end of an interval that closed where it
\* opened was resolved as a win
C11_Witness ==
    /\ ev.resolved
    /\ ~ev.prev.exited
    /\ ev.prev.trade.side = "Up"
    /\ ev.prev.latest_price = ev.prev.open_price
    /\ ev.resolve_pnl > 0
    /\ ev.resolve_pnl = 1000 * ev.prev.trade.shares - ev.prev.trade.cost

\* C13: the interval is replaced only by a tick, and by a tick exactly when
\* the 15-minute window of the wall clock is not the interval's own; the
\* new interval opens at the price of that tick, and the superseded
\* interval is resolved as the tick found it.
C13_RotationOnTick ==
    [][ IF ev'.kind = "tick" /\ now' > now
        THEN LET rotates == iv = NoInterval \/ iv.start_ts # GetIntervalStart(now')
             IN  /\ iv'.start_ts = GetIntervalStart(now')
                 /\ rotates =>
                       /\ iv'.open_price # NoPrice
                       /\ iv'.open_price = iv'.latest_price
                       /\ iv'.high_price = iv'.latest_price
                       /\ iv'.low_price = iv'.latest_price
                       /\ iv'.trade = NoTrade
                 /\ ~rotates =>
                       /\ iv'.open_price = iv.open_price
                       /\ ~ev'.resolved
                 /\ (rotates /\ iv # NoInterval /\ iv.trade # NoTrade) =>
                       /\ ev'.resolved
                       /\ ev'.prev = iv
        ELSE iv = NoInterval \/ iv'.start_ts = iv.start_ts ]_vars

\* a tick of the next window resolved the interval before and opened the
\* new one at its own price, not at the price the old one closed at
C13_Witness ==
    /\ ev.resolved
    /\ iv.open_price # ev.prev.latest_price
    /\ iv.start_ts = ev.prev.end_ts
    /\ iv.trade = NoTrade

\* C14, as stated: a buy order is submitted only by an evaluation at which
\* no order was accepted before in the interval, elapsed is in the entry
\* window, the move meets the STRONG or MODERATE threshold, the market
\* accepts orders, the book has a best bid and a best ask, the spread is at
\* most MAX_SPREAD, the buy price at most MAX_ENTRY_PRICE and the edge at
\* least MIN_EDGE.
C14_BuyOnlyThroughGates ==
    ev.buy # "none" =>
        LET elapsed == now - iv.start_ts
            move == Abs(iv.latest_price - iv.open_price) * 10000
            best_bid == SetMax(ev.book.bids, 0)
            best_ask == SetMin(ev.book.asks, 1000)
            price == RoundTo(Min(best_ask + 10, 990), 10)
            fair == IF move >= STRONG_MOVE_PCT * iv.open_price
                    THEN (IF elapsed > LATE_AFTER THEN 850 ELSE 750)
                    ELSE 700
        IN  /\ hist.accepted = (IF ev.buy = "accepted" THEN 1 ELSE 0)
            /\ elapsed >= ENTRY_START /\ elapsed <= ENTRY_END
            /\ \/ move >= STRONG_MOVE_PCT * iv.open_price
               \/ move >= MIN_MOVE_PCT * iv.open_price /\ elapsed > MODERATE_AFTER
            /\ ev.market = "open"
            /\ ev.book # NoBook
            /\ ev.book.bids # {} /\ ev.book.asks # {}
            /\ best_ask - best_bid <= MAX_SPREAD
            /\ price <= MAX_ENTRY_PRICE
            /\ fair - price >= MIN_EDGE

\* C14, amended: as stated, but of the market only that it does not report
\* acceptingOrders false, and of the order book only that it was fetched: a
\* side without orders counts as a best bid of 0 or a best ask of 1.00.
C14_BuyOnlyThroughGatesOfFetchedBook ==
    ev.buy # "none" =>
        LET elapsed == now - iv.start_ts
            move == Abs(iv.latest_price - iv.open_price) * 10000
            best_bid == SetMax(ev.book.bids, 0)
            best_ask == SetMin(ev.book.asks, 1000)
            price == RoundTo(Min(best_ask + 10, 990), 10)
            fair == IF move >= STRONG_MOVE_PCT * iv.open_price
                    THEN (IF elapsed > LATE_AFTER THEN 850 ELSE 750)
                    ELSE 700
        IN  /\ hist.accepted = (IF ev.buy = "accepted" THEN 1 ELSE 0)
            /\ elapsed >= ENTRY_START /\ elapsed <= ENTRY_END
            /\ \/ move >= STRONG_MOVE_PCT * iv.open_price
               \/ move >= MIN_MOVE_PCT * iv.open_price /\ elapsed > MODERATE_AFTER
            /\ ev.market \in {"open", "unflagged"}
            /\ ev.book # NoBook
            /\ best_ask - best_bid <= MAX_SPREAD
            /\ price <= MAX_ENTRY_PRICE
            /\ fair - price >= MIN_EDGE

\* a MODERATE signal late in the window bought from a two-sided book
C14_Witness ==
    /\ ev.buy = "accepted"
    /\ Strength(iv, now) = "MODERATE"
    /\ ev.book.bids # {}
    /\ ev.book.asks # {}

\* C19: a tick is handled only when no handler is suspended: the handler of
\* the tick before, with the fill polling it started, has returned.
C19_TicksAreSequential ==
    [][ (ev'.kind = "tick" /\ now' > now) => (pc = "idle" /\ poll = NoPoll) ]_vars

\* a tick was delivered while the handler was polling a sell order
C19_Witness ==
    /\ TickArrivedWhilePolling
    /\ pc = "sell_poll"
    /\ poll.attempts >= 1

C12_FirstIntervalNotResolvable ==
    /\ obs.hist.ordinal = 1 => obs.iv.entry = NoEntry
    /\ obs.hist.ordinal <= 2 => obs.wins + obs.losses = 0

\* C16: a signal the higher-timeframe filter rejects leaves the interval
\* without an entry and not marked as traded, and an evaluation later in
\* the interval whose direction the filter does not reject makes an entry.
C16_FilterLeavesIntervalOpen ==
    [][ /\ obs'.ev.filtered =>
              /\ ~obs'.iv.trade_taken
              /\ obs'.iv.entry = NoEntry
              /\ obs'.entry_count = obs.entry_count
        /\ ( /\ obs.hist.filtered
             /\ ~obs'.ev.rotated
             /\ obs'.ev.evaluated
             /\ obs'.ev.htf \in
                  {"none", IF obs'.iv.latest_price > obs'.iv.open_price
                           THEN "Up" ELSE "Down"} )
           => /\ obs'.ev.entered
              /\ obs'.iv.trade_taken
              /\ obs'.iv.entry # NoEntry
              /\ obs'.entry_count = obs.entry_count + 1 ]_vars

\* an entry made in an interval in which the filter had rejected a signal
C16_Witness ==
    /\ obs.ev.entered
    /\ obs.hist.filtered
    /\ obs.iv.entry.elapsed <= OBS_ENTRY_END

\* C17: an exit is recorded only on a tick at elapsed >= EXIT_MONITOR_START,
\* for an entry not yet exited, when the exit trend is not Neutral, is not
\* the recorded trend state and opposes the entry's direction; no entry is
\* exited twice.
C17_TrendReversalExit ==
    [][ (obs'.ev.exited \/ obs'.tema_exits # obs.tema_exits) =>
            /\ obs.iv # NoInterval
            /\ obs.iv.entry # NoEntry
            /\ obs'.iv.start_ts = obs.iv.start_ts
            /\ obs'.now - obs'.iv.start_ts >= EXIT_MONITOR_START
            /\ ~obs.iv.entry.exited
            /\ obs'.iv.entry.exited
            /\ obs'.ev.trend # "Neutral"
            /\ obs.iv.entry.prev_exit_tema # NoTema
            /\ obs'.ev.trend # obs.iv.entry.prev_exit_tema
            /\ \/ obs.iv.entry.direction = "Up" /\ obs'.ev.trend = "Down"
               \/ obs.iv.entry.direction = "Down" /\ obs'.ev.trend = "Up"
            /\ obs'.tema_exits = obs.tema_exits + 1
            /\ obs'.hist.exits = 1 ]_vars

\* an Up entry was exited behind the open on a Down crossing
C17_Witness ==
    /\ obs.ev.exited
    /\ obs.iv.entry.direction = "Up"
    /\ obs.ev.trend = "Down"
    /\ ~obs.iv.entry.exit_in_direction

\* C18, as stated: an exit fires only on a new crossing, a tick whose trend
\* is not the trend the monitor was given on the tick before.
C18_ExitOnlyOnNewCrossing ==
    obs.ev.exited => obs.ev.fresh

\* C18, amended: a crossing deferred for the cushion leaves the recorded
\* trend state as it was, and the tick after it exits the entry if the
\* trend still opposes it and the favourable move is within the cushion,
\* and defers again if the move still exceeds the cushion.
C18_DeferredCrossingStaysPending ==
    [][ /\ obs'.ev.skipped =>
              /\ ~obs'.iv.entry.exited
              /\ obs'.iv.entry.prev_exit_tema = obs.iv.entry.prev_exit_tema
        /\ ( /\ obs.ev.skipped
             /\ obs'.now > obs.now
             /\ ~obs'.ev.rotated
             /\ obs'.ev.trend = obs.hist.seen )
           => LET e == obs.iv.entry
                  i == obs'.iv
                  favour == IF e.direction = "Up"
                            THEN i.latest_price - i.open_price
                            ELSE i.open_price - i.latest_price
              IN  IF favour * 10000 > EXIT_CUSHION_PCT * i.open_price
                  THEN obs'.ev.skipped
                  ELSE obs'.ev.exited /\ i.entry.exited ]_vars

\* an exit on the crossing that an earlier tick had deferred
C18_Witness ==
    /\ obs.ev.exited
    /\ ~obs.ev.fresh
    /\ obs.iv.entry.prev_exit_tema = obs.ev.trend

\* C15: in no interval, of the trader or of the observer, is the entry
\* evaluation made more than once in one 30-second bucket of elapsed time.
C15_OneEvaluationPerBucket ==
    /\ hist.evals <= 1
    /\ obs.hist.evals <= 1

\* both programs were given a tick with a live signal in the bucket they
\* had evaluated in, without an entry, and did not evaluate again
C15_Witness ==
    /\ ev.kind = "tick"
    /\ pc = "idle"
    /\ ~ev.evaluated
    /\ ~iv.trade_taken
    /\ Strength(iv, now) # "none"
    /\ hist.evals = 1
    /\ hist.eval_bucket = (now - iv.start_ts) \div 30
    /\ obs.ev.kind = "tick"
    /\ ~obs.ev.evaluated
    /\ obs.iv.entry = NoEntry
    /\ ObsMoveAtLeast(obs.iv, OBS_MIN_MOVE_PCT)
    /\ obs.hist.evals = 1
    /\ obs.hist.eval_bucket = (obs.now - obs.iv.start_ts) \div 30

\* C21: against an exchange that never fills the order, never ends it and
\* may raise on every poll, a fill confirmation always ends: by the timeout,
\* not before max_wait has elapsed and within one poll of it, with a cancel
\* attempted, and with (0, 0) returned whether or not the cancel succeeded.
C21_ConfirmFillTerminates ==
    (pc # "idle") ~>
        ( /\ pc = "idle"
          /\ ev.kind = "timeout"
          /\ ev.confirm.how = "timeout"
          /\ ev.confirm.cancelled
          /\ ev.confirm.filled = 0
          /\ ev.confirm.price = 0
          /\ LET max_wait == IF ev.confirm.kind = "buy"
                             THEN ENTRY_ORDER_TIMEOUT ELSE EXIT_ORDER_TIMEOUT
             IN  /\ ev.confirm.waited >= max_wait
                 /\ ev.confirm.waited < max_wait + PollLatency + PollSleep )

\* a buy order on which every poll raised or found nothing timed out, and
\* the cancel failed
C21_Witness ==
    /\ ev.kind = "timeout"
    /\ ev.confirm.kind = "buy"
    /\ ~ev.confirm.cancel_ok
    /\ ~ev.confirm.all_open
    /\ ev.confirm.filled = 0
    /\ ev.confirm.attempts >= 5
    /\ iv.trade = NoTrade

\* C22: for every period p and every series of closes fed so far, calc_tema
\* is None exactly when the series has fewer than 3p closes; the tracker's
\* cached values are None in exactly those cases.
C22_TemaUndefinedIffShort ==
    trk.ev.kind # "init" =>
        /\ \A p \in 1..3 : (calc_tema(trk.fed, p) = NoValue) <=> (Len(trk.fed) < 3 * p)
        /\ (trk.tema_fast = NoValue) <=> (Len(trk.closes) < 3 * trk.fast_period)
        /\ (trk.tema_slow = NoValue) <=> (Len(trk.closes) < 3 * trk.slow_period)

\* five closes: a number for period 1, None for period 2, which has the
\* 3p - 2 closes that three seeded averages need but not 3p
C22_Witness ==
    /\ Len(trk.fed) = 5
    /\ trk.tema_fast # NoValue
    /\ trk.tema_slow = NoValue
    /\ ~trk.ready

\* C23, as stated: the cached TEMA values are calc_tema of all the closes
\* fed to the tracker.
C23_CachedIsBatchOverAllFed ==
    trk.ev.kind # "init" =>
        /\ trk.tema_fast = calc_tema(trk.fed, trk.fast_period)
        /\ trk.tema_slow = calc_tema(trk.fed, trk.slow_period)

\* C23, amended: the cached TEMA values are calc_tema of the closes the
\* tracker retains, the last 3 * slow_period + 60 of those fed to it.
C23_CachedIsBatchOverRetained ==
    trk.ev.kind # "init" =>
        LET n == Len(trk.fed)
            cap == 3 * trk.slow_period + 60
            kept == IF n > cap THEN SubSeq(trk.fed, n - cap + 1, n) ELSE trk.fed
        IN  /\ trk.closes = kept
            /\ trk.tema_fast = calc_tema(kept, trk.fast_period)
            /\ trk.tema_slow = calc_tema(kept, trk.slow_period)

\* the first close has been evicted and the slow TEMA is no longer that of
\* the whole series
C23_Witness ==
    /\ trk.ev.kind # "init"
    /\ Len(trk.fed) > Len(trk.closes)
    /\ trk.ready
    /\ trk.tema_slow # calc_tema(trk.fed, trk.slow_period)

\* C24: get_trend is Neutral when the tracker is not ready or the values
\* tie, Up exactly when ready with fast > slow, Down exactly when ready with
\* fast < slow.
C24_GetTrend ==
    LET trend == GetTrend(trk)
    IN  /\ trend \in {"Up", "Down", "Neutral"}
        /\ ~trk.ready => trend = "Neutral"
        /\ trk.ready =>
              /\ trk.tema_fast # NoValue /\ trk.tema_slow # NoValue
              /\ trk.tema_fast[1] = trk.tema_slow[1] => trend = "Neutral"
              /\ trk.tema_fast[1] > trk.tema_slow[1] <=> trend = "Up"
              /\ trk.tema_fast[1] < trk.tema_slow[1] <=> trend = "Down"

\* a ready tracker whose values tie
C24_Witness ==
    /\ trk.ready
    /\ trk.tema_fast = trk.tema_slow
    /\ GetTrend(trk) = "Neutral"

\* C25: a tracker that is ready stays ready after every update_price.
C25_ReadyIsMonotone ==
    [][ trk.ready => trk'.ready ]_vars

\* a tracker still ready after its deque has evicted closes
C25_Witness ==
    /\ trk.ready
    /\ Len(trk.closes) = 3 * trk.slow_period + 60
    /\ Len(trk.fed) >= Len(trk.closes) + 2

\* C26, as stated: after the 240 closes 100, 101, ..., 339 with periods 10
\* and 80, TEMA(fast) > TEMA(slow) and the trend is Up.
C26_RampIsUp ==
    ( /\ trk.path = "ramp"
      /\ Len(trk.fed) = 240
      /\ trk.fast_period = 10 /\ trk.slow_period = 80 )
    => /\ trk.tema_fast[1] > trk.tema_slow[1]
       /\ GetTrend(trk) = "Up"

\* C26, amended: after those 240 closes both TEMA values are 339, the last
\* close, and the trend is Neutral.
C26_RampIsNeutral ==
    ( /\ trk.path = "ramp"
      /\ Len(trk.fed) = 240
      /\ trk.fast_period = 10 /\ trk.slow_period = 80 )
    => /\ trk.fed = [i \in 1..240 |-> 10000 * (99 + i)]
       /\ trk.tema_fast = << 10000 * 339 >>
       /\ trk.tema_slow = << 10000 * 339 >>
       /\ GetTrend(trk) = "Neutral"

\* the tracker has been fed the 240 closes and is ready
C26_Witness ==
    /\ trk.path = "ramp"
    /\ Len(trk.fed) = 240
    /\ trk.fed[1] = 10000 * 100
    /\ trk.fed[240] = 10000 * 339
    /\ trk.fast_period = 10 /\ trk.slow_period = 80
    /\ trk.ready

\* C27: the first tick only sets the current candle; a tick of a later
\* candle appends the close of the current one, once, recomputes the TEMA
\* values over the retained closes and starts the tick's candle; a tick of
\* the same or an earlier candle only replaces the close in progress.
C27_UpdatePrice ==
    [][ trk' # trk =>
          LET bucket == trk'.ev.candle_start
              price == trk'.ev.price
          IN  /\ trk'.current_candle_close = price
              /\ IF trk.current_candle_start = 0
                 THEN /\ trk'.current_candle_start = bucket
                      /\ trk'.closes = trk.closes
                      /\ trk'.fed = trk.fed
                      /\ trk'.tema_fast = trk.tema_fast
                      /\ trk'.tema_slow = trk.tema_slow
                 ELSE IF bucket > trk.current_candle_start
                 THEN /\ trk'.current_candle_start = bucket
                      /\ trk'.fed = Append(trk.fed, trk.current_candle_close)
                      /\ Len(trk'.closes) <= Len(trk.closes) + 1
                      /\ trk'.closes[Len(trk'.closes)] = trk.current_candle_close
                      /\ trk'.tema_fast = calc_tema(trk'.closes, trk'.fast_period)
                      /\ trk'.tema_slow = calc_tema(trk'.closes, trk'.slow_period)
                 ELSE /\ trk'.current_candle_start = trk.current_candle_start
                      /\ trk'.closes = trk.closes
                      /\ trk'.fed = trk.fed
                      /\ trk'.tema_fast = trk.tema_fast
                      /\ trk'.tema_slow = trk.tema_slow ]_vars

\* a tick two candles after the current one appended one close
C27_Witness ==
    /\ trk.ev.kind = "close"
    /\ trk.ev.candle_start > trk.ev.prev_start + trk.candle_interval
    /\ Len(trk.fed) = 3
    /\ trk.fed[1] # trk.fed[2]

\* C28: every visited window with a candle missing counts as skipped and
\* adds no observation, every other visited window counts as complete, and
\* total = complete + skipped.
C28_SkippedAndComplete ==
    LET Missing(w) == \E k \in 0..14 : w + 60 * k \notin ByTs(cal)
        idx == 1..Len(cal.visited)
    IN  /\ cal.stats.total = Len(cal.visited)
        /\ cal.stats.total = cal.stats.complete + cal.stats.skipped
        /\ cal.stats.skipped =
              Cardinality({ i \in idx : Missing(cal.visited[i].interval_start) })
        /\ cal.stats.complete =
              Cardinality({ i \in idx : ~Missing(cal.visited[i].interval_start) })
        /\ \A i \in idx :
              LET v == cal.visited[i]
              IN  IF Missing(v.interval_start)
                  THEN /\ ~v.complete
                       /\ v.after = v.before
                       /\ \A j \in 1..Len(cal.observations) :
                             cal.observations[j].interval_ts # v.interval_start
                  ELSE v.complete

\* a finished run that skipped a window without its candle at index 7 and
\* took 14 observations from a complete one
C28_Witness ==
    /\ cal.phase = "done"
    /\ \E i \in 1..Len(cal.visited) :
          LET v == cal.visited[i]
          IN  /\ ~v.complete
              /\ v.interval_start + 420 \notin ByTs(cal)
              /\ v.interval_start \in ByTs(cal)
    /\ \E i \in 1..Len(cal.visited) :
          cal.visited[i].complete /\ cal.visited[i].after = cal.visited[i].before + 14
    /\ cal.stats = [ total |-> 2, complete |-> 1, skipped |-> 1 ]

\* C29: when simulate_intervals returns, every 900-second-aligned window at
\* or after the first candle whose 15 candles are all in the input has been
\* evaluated.
C29_EveryCompleteWindowEvaluated ==
    cal.phase = "done" =>
        \A j \in 0..(MaxCandles \div 15 + 3) :
            LET w == j * 900
            IN  ( /\ w >= cal.min_ts
                  /\ \A k \in 0..14 : w + 60 * k \in ByTs(cal) )
                => \E i \in 1..Len(cal.visited) :
                      /\ cal.visited[i].interval_start = w
                      /\ cal.visited[i].complete

\* C30: a move is in at most one bin, classify_move gives the label of that
\* bin and None without one; a move equal to a bound is in the bin that
\* starts there, and a move below 0.03 is in none.
C30_ClassifyMove ==
    cls.abs_pct # NoValue =>
        LET x == cls.abs_pct[1]
            labels == { l \in {"0.03-0.05", "0.05-0.10", "0.10-0.20", "0.20+"} :
                          \/ l = "0.03-0.05" /\ 30 <= x /\ x < 50
                          \/ l = "0.05-0.10" /\ 50 <= x /\ x < 100
                          \/ l = "0.10-0.20" /\ 100 <= x /\ x < 200
                          \/ l = "0.20+" /\ 200 <= x /\ x < 999000 }
        IN  /\ Cardinality(labels) <= 1
            /\ IF labels = {} THEN cls.label = "None" ELSE cls.label \in labels
            /\ x = 30 => cls.label = "0.03-0.05"
            /\ x = 50 => cls.label = "0.05-0.10"
            /\ x = 100 => cls.label = "0.10-0.20"
            /\ x = 200 => cls.label = "0.20+"
            /\ x < 30 => cls.label = "None"

\* 0.05 has been classified
C30_Witness ==
    /\ cls.abs_pct = << 50 >>
    /\ cls.label = "0.05-0.10"

\* C31, as stated: an elapsed time in [60, 840) is in exactly one bucket and
\* any other, 840 s included, is in none.
C31_ElapsedBucketsEndBefore840 ==
    cls.secs # NoValue =>
        LET x == cls.secs[1]
        IN  (cls.elapsed_label # "None") <=> (60 <= x /\ x < 840)

\* C31, amended: an elapsed time from 60 to 840 s, both included, is in
\* exactly one bucket, 840 s in the last one, and any other is in none.
C31_ElapsedBucketsInclude840 ==
    cls.secs # NoValue =>
        LET x == cls.secs[1]
            labels == { l \in {"60-180", "180-420", "420-600", "600-840"} :
                          \/ l = "60-180" /\ 60 <= x /\ x < 180
                          \/ l = "180-420" /\ 180 <= x /\ x < 420
                          \/ l = "420-600" /\ 420 <= x /\ x < 600
                          \/ l = "600-840" /\ 600 <= x /\ x <= 840 }
        IN  /\ Cardinality(labels) <= 1
            /\ IF labels = {} THEN cls.elapsed_label = "None" ELSE cls.elapsed_label \in labels
            /\ (labels # {}) <=> (60 <= x /\ x <= 840)
            /\ x = 840 => cls.elapsed_label = "600-840"
            /\ x = 841 => cls.elapsed_label = "None"

\* 840 s has been classified
C31_Witness ==
    /\ cls.secs = << 840 >>
    /\ cls.elapsed_label = "600-840"

\* C34: after a crossing was deferred for the cushion the recorded trend
\* state is still the one from before it, and every later tick of the
\* interval runs the exit monitor and exits the entry if the trend opposes
\* it and the favourable move is at most EXIT_CUSHION_PCT, whether or not the
\* trend changed since the tick before.
C34_PendingCrossingFires ==
    [][ ( /\ obs.iv # NoInterval
          /\ obs.iv.entry # NoEntry
          /\ obs.hist.deferred # -1
          /\ ~obs.iv.entry.exited
          /\ obs' # obs
          /\ ~obs'.ev.rotated )
        => LET e == obs.iv.entry
               i == obs'.iv
               favour == IF e.direction = "Up"
                         THEN i.latest_price - i.open_price
                         ELSE i.open_price - i.latest_price
               opposing == IF e.direction = "Up" THEN "Down" ELSE "Up"
           IN  /\ e.prev_exit_tema = e.direction
               /\ obs'.ev.monitored
               /\ ( /\ obs'.ev.trend = opposing
                    /\ favour * 10000 <= EXIT_CUSHION_PCT * i.open_price )
                  => /\ obs'.ev.exited
                     /\ i.entry.exited
                     /\ i.entry.exit_price = i.latest_price
                     /\ obs'.tema_exits = obs.tema_exits + 1 ]_vars

\* an exit at 630 s on the crossing deferred at 610 s, the trend at 620 s
\* having been the opposing one already
C34_Witness ==
    /\ obs.ev.exited
    /\ obs.hist.deferred = 610
    /\ obs.now - obs.iv.start_ts = 630
    /\ ~obs.ev.fresh

\* C32: every cell of a table of compute_table has count > 0 and a win rate
\* that is a number, wins / count to four places, also when no observation
\* of the cell was won.
C32_WinRateDefined ==
    tbl.phase = "done" =>
        \A name \in {"all", "aligned", "misaligned"} :
            LET table == CASE name = "all" -> tbl.all_table
                           [] name = "aligned" -> tbl.aligned_table
                           [] OTHER -> tbl.misaligned_table
                In(k, key) ==
                    /\ key = << "0.05-0.10", "60-180" >> <=> k \in {1, 2, 4}
                    /\ key = << "0.10-0.20", "600-840" >> <=> k = 3
                    /\ k # 5
                    /\ name = "aligned" => k \in {1, 2, 3}
                    /\ name = "misaligned" => k = 4
            IN  \A key \in DOMAIN table :
                    LET count == tbl.runs[1] * (IF In(1, key) THEN 1 ELSE 0)
                                 + tbl.runs[2] * (IF In(2, key) THEN 1 ELSE 0)
                                 + tbl.runs[3] * (IF In(3, key) THEN 1 ELSE 0)
                                 + tbl.runs[4] * (IF In(4, key) THEN 1 ELSE 0)
                        wins == tbl.runs[1] * (IF In(1, key) THEN 1 ELSE 0)
                                + tbl.runs[4] * (IF In(4, key) THEN 1 ELSE 0)
                    IN  /\ table[key].count = count
                        /\ count > 0
                        /\ table[key].win_rate # NoValue
                        /\ 2 * Abs(table[key].win_rate[1] * count - wins * 10000) <= count

\* C33: a cell of bot_table holds a win rate only if the aligned table
\* counts at least MIN_SAMPLES observations in it, and a cell without
\* observations holds None.
C33_BotTableTrusted ==
    tbl.phase = "done" =>
        \A key \in TblLabels :
            LET count == IF key = << "0.05-0.10", "60-180" >> THEN tbl.runs[1] + tbl.runs[2]
                         ELSE IF key = << "0.10-0.20", "600-840" >> THEN tbl.runs[3]
                         ELSE 0
            IN  /\ tbl.bot_table[key] # NoValue => count >= MIN_SAMPLES
                /\ count = 0 => tbl.bot_table[key] = NoValue
                /\ tbl.bot_table[key] # NoValue =>
                      /\ tbl.bot_table[key] = tbl.aligned_table[key].win_rate
                      /\ tbl.aligned_table[key].count = count

\* one cell with 30 aligned observations holds a win rate, the same cell
\* would not with the 29 of the other table, and a cell with 29 holds None
C33_Witness ==
    /\ tbl.phase = "done"
    /\ tbl.runs[1] = MIN_SAMPLES - 1 /\ tbl.runs[2] = 1
    /\ tbl.runs[3] = MIN_SAMPLES - 1
    /\ tbl.runs[4] = MIN_SAMPLES - 1
    /\ tbl.bot_table[<< "0.05-0.10", "60-180" >>] = << 9667 >>
    /\ tbl.bot_table[<< "0.10-0.20", "600-840" >>] = NoValue
    /\ tbl.bot_table[<< "0.20+", "60-180" >>] = NoValue

\* C35: two candle histories that agree on every candle before a window's
\* start give the window's observations the same trend tag.
C35_TagIgnoresLaterCandles ==
    tag.phase = "done" => tag.tag_a = tag.tag_b


\* C36: every tick handled while a position is open and unexited and at
\* most EXIT_BEFORE_END seconds remain calls _sell_position for
\* "forced_exit", which counts one more sell attempt; such a tick finds at
\* most MAX_SELL_ATTEMPTS attempts counted, and the one that finds
\* MAX_SELL_ATTEMPTS marks the position exited.  So the fourth such tick at
\* the latest leaves the position exited: sold, below the minimum, or
\* failed.
C36_ForcedExitWindowIsBounded ==
    [][ ( /\ pc = "idle"
          /\ ev'.kind = "tick"
          /\ iv # NoInterval
          /\ iv'.start_ts = iv.start_ts
          /\ HasOpenPosition(iv)
          /\ iv.end_ts - now' <= EXIT_BEFORE_END )
        => /\ ev'.sell_reason = "forced_exit"
           /\ ev'.sell_outcome \in {"gave_up", "below_min", "rejected", "accepted"}
           /\ iv.sell_attempts <= MAX_SELL_ATTEMPTS
           /\ iv'.sell_attempts = iv.sell_attempts + 1
           /\ (iv.sell_attempts = MAX_SELL_ATTEMPTS) =>
                 /\ iv'.exited
                 /\ iv'.exit_reason = "forced_exit_failed"
           /\ (ev'.sell_outcome = "below_min") =>
                 /\ iv'.exited
                 /\ iv'.exit_reason = "forced_exit_below_min"
           /\ (ev'.sell_outcome = "accepted") => pc' = "sell_poll" ]_vars

\* the fourth tick of the last EXIT_BEFORE_END seconds gave the position
\* up: it was bought too late to be monitored before them, and three forced
\* sell orders did not sell it
C36_Witness ==
    /\ ev.kind = "tick"
    /\ ev.sell_reason = "forced_exit"
    /\ ev.sell_outcome = "gave_up"
    /\ iv.last_monitor_ts = 0
    /\ iv.sell_attempts = MAX_SELL_ATTEMPTS + 1
    /\ hist.sell_orders = MAX_SELL_ATTEMPTS
    /\ iv.exited


\* C37: a position is resolved by the first tick handled after its
\* interval is superseded and by no other step: that tick appends it to the
\* trade list once, not having been appended before, and adds its P&L to
\* the session P&L once; every other step leaves the trade list and the
\* session P&L as they are.
C37_ResolvedExactlyOnce ==
    [][ IF iv # NoInterval /\ iv.trade # NoTrade /\ iv'.start_ts # iv.start_ts
        THEN LET winner == IF iv.latest_price >= iv.open_price THEN "Up" ELSE "Down"
                 payout == IF iv.trade.side = winner THEN 1000 * iv.trade.shares ELSE 0
                 pnl == IF iv.exited THEN iv.exit_pnl ELSE payout - iv.trade.cost
             IN  /\ ev'.kind = "tick"
                 /\ \A k \in 1..Len(trades) : trades[k] < iv.start_ts
                 /\ trades' = Append(trades, iv.start_ts)
                 /\ session_pnl' = session_pnl + pnl
        ELSE /\ trades' = trades
             /\ session_pnl' = session_pnl ]_vars

\* the third position of the session was resolved, two having been resolved
\* before it, one tick each, and the new interval holds no trade yet
C37_Witness ==
    /\ ev.kind = "tick"
    /\ ev.resolved
    /\ Len(trades) = 3
    /\ trades[3] = ev.prev.start_ts
    /\ trades[1] < trades[2] /\ trades[2] < trades[3]
    /\ ev.prev.exited
    /\ iv.trade = NoTrade


\* C38: a position marked exited without a sale -- given up after
\* MAX_SELL_ATTEMPTS attempts, or a forced exit below the minimum order
\* value -- carries exit_pnl 0 and is resolved with P&L 0: the resolving
\* tick leaves the bankroll and the session P&L as they are, whichever side
\* wins the interval.
C38_UnsoldExitResolvesFlat ==
    [][ ( /\ iv # NoInterval
          /\ iv.trade # NoTrade
          /\ iv.exited
          /\ iv.exit_reason \in {"forced_exit_failed", "take_profit_failed",
                                 "stop_loss_failed", "forced_exit_below_min"}
          /\ iv'.start_ts # iv.start_ts )
        => /\ iv.exit_pnl = 0
           /\ ev'.resolved
           /\ ev'.resolve_pnl = 0
           /\ trades' = Append(trades, iv.start_ts)
           /\ bankroll' = bankroll
           /\ session_pnl' = session_pnl
           /\ circuit_breaker' = circuit_breaker ]_vars

\* an Up position given up on a forced exit was resolved in an interval
\* that Up won
C38_Witness ==
    /\ ev.resolved
    /\ ev.prev.exit_reason = "forced_exit_failed"
    /\ ev.prev.sell_attempts = MAX_SELL_ATTEMPTS + 1
    /\ ev.prev.trade.side = "Up"
    /\ ev.prev.latest_price >= ev.prev.open_price
    /\ ev.resolve_pnl = 0
    /\ session_pnl = 0


\* C39: when _confirm_fill returns, the order does not rest on the book
\* partially filled: the exchange reported it fully matched, or cancelled or
\* expired, or _confirm_fill issued a cancel for it.
C39_NoPartialOrderLeftResting ==
    ev.confirm # NoConfirm =>
        \/ ev.confirm.cancelled
        \/ Terminal(ev.confirm.status)
        \/ ev.confirm.status = "MATCHED"
        \/ /\ ev.confirm.size_matched > 0
           /\ ev.confirm.size_matched >= ev.confirm.original_size


\* C40: the size of every sell order submitted is the position's confirmed
\* shares rounded to 2 decimal places, and is never more than the confirmed
\* shares.
C40_SellSizeWithinShares ==
    ev.sell_outcome \in {"accepted", "rejected"} =>
        /\ ev.sell_shares = RoundTo(iv.trade.shares, 10)
        /\ ev.sell_shares <= iv.trade.shares

====
